---- MODULE Spec2Model ----
(***************************************************************************)
(* Session core of the xconn WAMP client: the blocking session             *)
(* (src/src/sync/session.rs) and the cooperative session                   *)
(* (src/src/async_/session.rs).  Caller tasks run the public operations,   *)
(* one reader task dispatches inbound frames, detached handler tasks run   *)
(* user callbacks.  The router is the environment: it may send any frame   *)
(* at any time.                                                            *)
(***************************************************************************)
EXTENDS Integers, Sequences, FiniteSets, TLC

(* ---- bounds ---- *)
NumCallers == 2
MaxId == 2
MaxRouterId == 2
MaxTasks == 1
MaxWire == 3
MaxGoodbyes == 2
MaxLeaves == 2
MaxFrames == 2
MaxPayload == 2

Callers == 1..NumCallers
RequestIds == 1..MaxId
RouterIds == 1..MaxRouterId
Payloads == {"a", "b"}
ReqArgs == {"x"}
ResultArgs == {"r"}
Flavours == {"sync", "async"}

(* values of options["acknowledge"] on PUBLISH: key missing, Value::Bool(true),
   Value::Bool(false), a value of another type *)
AckOptions == {"absent", "true", "false", "nonbool"}

None == [tag |-> "None"]
Some(v) == [tag |-> "Some", val |-> v]

VARIABLES
    peer,           \* the transport peer: byte streams, locks and the join handshake
    flavour,        \* which session implementation is running
    idgen,          \* SessionScopeIDGenerator: the last id handed out
    state,          \* struct State: the pending maps, registries and goodbye_sent
    pc,             \* per caller: position inside the public operation
    op,             \* per caller: the request passed to the operation
    request_id,     \* per caller: the local request_id of the operation
    chan,           \* per caller: the values sitting in its reply channel
    ret,            \* per caller: what the operation returned
    wire,           \* frames written to the peer, in write order
    tasks,          \* detached handler tasks that have been spawned
    reader_pc,      \* position of the reader task
    goodbye_chan,   \* signals queued in the goodbye channel
    exit_chan,      \* signals queued in the exit channel
    answered,       \* mock router: request ids it has replied to
    hist            \* history: ids handed out, how the last dropped reply was
                    \* classified, registry ids installed from successful replies,
                    \* how the handler task that ended last ended, the number
                    \* of EVENT frames dispatched so far modulo 2, the numbers
                    \* of GOODBYE frames dispatched, of those dispatched with
                    \* goodbye_sent true, of exit signals raised, of leave
                    \* calls, of leave calls that returned Ok, of
                    \* wait_disconnect calls that received a signal, the
                    \* callers whose op was invoked after a GOODBYE arm ended,
                    \* the subscription ids unsubscribe was called on, the
                    \* registries as the session of the other flavour would
                    \* hold them after the same ops and frames, whether a
                    \* reply was delivered while a handler task was live,
                    \* the number of INVOCATIONs for unknown registrations
                    \* modulo 2, the request ids whose reply channel was
                    \* abandoned and those whose reply was then discarded

vars == <<peer, flavour, idgen, state, pc, op, request_id, chan, ret, wire, tasks,
          reader_pc, goodbye_chan, exit_chan, answered, hist>>

(* ---- frames ---- *)
Frame(type, req, id, arg, etype) ==
    [type |-> type, request_id |-> req, id |-> id, arg |-> arg, etype |-> etype]

(* inbound frames that are not replies: INVOCATION(request_id, registration_id,
   args) and EVENT(subscription_id, args); id 0 is never assigned by a router
   but nothing stops a frame from carrying it *)
InvocationFrames ==
    {Frame("INVOCATION", r, i, a, "-") : r \in RouterIds, i \in 0..MaxRouterId, a \in Payloads}
EventFrames ==
    {Frame("EVENT", 0, i, a, "-") : i \in 0..MaxRouterId, a \in Payloads}

ErrorTypes == {"CALL", "REGISTER", "UNREGISTER", "SUBSCRIBE", "UNSUBSCRIBE",
               "PUBLISH", "INVOCATION"}
ErrorUris == {"wamp.error"}

ReplyFrames ==
    {Frame("REGISTERED", r, i, "-", "-") : r \in RequestIds, i \in RouterIds}
    \cup {Frame("UNREGISTERED", r, 0, "-", "-") : r \in RequestIds}
    \cup {Frame("RESULT", r, 0, a, "-") : r \in RequestIds, a \in ResultArgs}
    \cup {Frame("SUBSCRIBED", r, i, "-", "-") : r \in RequestIds, i \in RouterIds}
    \cup {Frame("UNSUBSCRIBED", r, 0, "-", "-") : r \in RequestIds}
    \cup {Frame("PUBLISHED", r, 0, "-", "-") : r \in RequestIds}
    \cup {Frame("ERROR", r, 0, u, e) : r \in RequestIds, u \in ErrorUris, e \in ErrorTypes}

(* the pending map a reply frame is looked up in *)
MapOfType(type) ==
    CASE type = "CALL" -> "call_requests"
      [] type = "REGISTER" -> "register_requests"
      [] type = "UNREGISTER" -> "unregister_requests"
      [] type = "SUBSCRIBE" -> "subscribe_requests"
      [] type = "UNSUBSCRIBE" -> "unsubscribe_requests"
      [] type = "PUBLISH" -> "publish_requests"
      [] OTHER -> "none"

PendingMaps == {"call_requests", "register_requests", "unregister_requests",
                "publish_requests", "subscribe_requests", "unsubscribe_requests"}

EmptyMap == [k \in {} |-> 0]
Insert(m, k, v) == [x \in (DOMAIN m) \cup {k} |-> IF x = k THEN v ELSE m[x]]
Remove(m, k) == [x \in (DOMAIN m) \ {k} |-> m[x]]

PendingKeys == UNION {DOMAIN state[m] : m \in PendingMaps}

(* ---- responses ---- *)
WampError(f) == [uri |-> f.arg]
CallResponse(args, error) == [args |-> args, error |-> error]
RegisterResponse(id, error) == [registration_id |-> id, error |-> error]
SubscribeResponse(id, error) == [subscription_id |-> id, error |-> error]
PublishResponse(error) == [error |-> error]

NotReturned == [status |-> "-"]
Ok(v, f) == [status |-> "Ok", value |-> v, from |-> f]
Err(m) == [status |-> "Err", message |-> m]

(* ---- requests ---- *)
Op(name, ack, handler, arg) == [name |-> name, ack |-> ack, handler |-> handler, arg |-> arg]
NoOp == Op("-", "absent", 0, "-")
State0 ==
    [call_requests |-> EmptyMap, register_requests |-> EmptyMap,
     unregister_requests |-> EmptyMap, registrations |-> EmptyMap,
     publish_requests |-> EmptyMap, subscribe_requests |-> EmptyMap,
     unsubscribe_requests |-> EmptyMap, subscriptions |-> EmptyMap,
     goodbye_sent |-> FALSE]

(* the transport peer before any byte has moved: `inbound` is what the router
   has sent and the socket has not yet handed out, `sent` the payloads of the
   frames the router sent, `out` the values read() returned, `outbound` the
   bytes written to the socket; `join` is the position of the join handshake
   (a constructed session has completed it) *)
Peer0 ==
    [inbound |-> <<>>, sent |-> <<>>, rpc |-> "header", need |-> 0, out |-> <<>>,
     wpc |-> [w \in 1..(NumCallers + MaxTasks) |-> "idle"], wlock |-> 0,
     left |-> [w \in 1..(NumCallers + MaxTasks + 1) |-> [hdr |-> <<>>, pay |-> <<>>]],
     queue |-> <<>>, outbound |-> <<>>,
     broken |-> FALSE,
     join |-> "joined", scheme |-> "ws", auth |-> "anonymous", log |-> <<>>,
     failure |-> "none", connect |-> [status |-> "Ok"]]

Init ==
    /\ peer = Peer0
    /\ flavour \in Flavours
    /\ idgen = 0
    /\ state = State0
    /\ pc = [t \in Callers |-> "idle"]
    /\ op = [t \in Callers |-> NoOp]
    /\ request_id = [t \in Callers |-> 0]
    /\ chan = [t \in Callers |-> <<>>]
    /\ ret = [t \in Callers |-> NotReturned]
    /\ wire = <<>>
    /\ tasks = <<>>
    /\ reader_pc = "read"
    /\ goodbye_chan = 0
    /\ exit_chan = 0
    /\ answered = {}
    /\ hist = [emitted |-> <<>>, dropped |-> "none", installed |-> {},
               task_end |-> "none", events |-> 0,
               goodbyes |-> 0, flagged |-> 0, exits |-> 0,
               leaves |-> 0, left |-> 0, waited |-> 0, late |-> {},
               unsubscribed |-> {},
               twin |-> [registrations |-> <<>>, subscriptions |-> <<>>],
               overlap |-> FALSE, unrouted |-> 0,
               abandoned |-> {}, discarded |-> {}]

(* ---- the id generator ---- *)
next_id(c) == c + 1

(* variant: any value of the acknowledge option other than false asks for an
   acknowledgement *)
AcknowledgeUnlessFalse(o) == IF o.ack \in {"true", "nonbool"} THEN TRUE ELSE FALSE

(* options.get("acknowledge") matched against Some(Value::Bool(b)) *)
Acknowledge(o) == IF o.ack = "true" THEN TRUE ELSE FALSE

(* variant: every publish waits for an acknowledgement *)
MapOfOpAlwaysAck(o) ==
    CASE o.name = "call" -> "call_requests"
      [] o.name = "register" -> "register_requests"
      [] o.name = "subscribe" -> "subscribe_requests"
      [] o.name = "publish" -> "publish_requests"
      [] OTHER -> "none"

(* variant: register shares the map of call *)
MapOfOpShared(o) ==
    CASE o.name = "call" -> "call_requests"
      [] o.name = "register" -> "call_requests"
      [] o.name = "subscribe" -> "subscribe_requests"
      [] o.name = "publish" /\ Acknowledge(o) -> "publish_requests"
      [] OTHER -> "none"

(* the pending map an operation registers its reply channel in *)
MapOfOp(o) ==
    CASE o.name = "call" -> "call_requests"
      [] o.name = "register" -> "register_requests"
      [] o.name = "subscribe" -> "subscribe_requests"
      [] o.name = "publish" /\ Acknowledge(o) -> "publish_requests"
      [] OTHER -> "none"

FrameTypeOfOp(o) ==
    CASE o.name = "call" -> "CALL"
      [] o.name = "register" -> "REGISTER"
      [] o.name = "subscribe" -> "SUBSCRIBE"
      [] o.name = "publish" -> "PUBLISH"
      [] OTHER -> "GOODBYE"

(* the frame an operation writes; etype carries options["acknowledge"] *)
RequestFrame(o, k) == Frame(FrameTypeOfOp(o), k, 0, o.arg, o.ack)

(* call and leave of the async session take &mut self: no other operation of
   the session can be in progress while one of them runs *)
Exclusive(o) == flavour = "async" /\ o.name \in {"call", "leave"}
Busy(t) == pc[t] \notin {"idle", "done"}
BorrowOk(t, o) ==
    /\ Exclusive(o) => \A u \in Callers \ {t} : ~Busy(u)
    /\ \A u \in Callers \ {t} : Busy(u) => ~Exclusive(op[u])

(* the callback a caller passes to register / subscribe: caller t passes its
   own function, so two callers never pass the same one *)
Requests(t) ==
    {Op("call", "absent", 0, a) : a \in ReqArgs}
    \cup {Op("publish", k, 0, a) : k \in AckOptions, a \in ReqArgs}
    \cup {Op("register", "absent", t, "-"), Op("subscribe", "absent", t, "-")}

(* ---- caller: call / publish / register / subscribe up to peer.write ----
   next_id(), proto.send_message() = Ok and the insert of the reply channel's
   sender into the pending map (skipped on the unacknowledged path).  The id
   generator and the map are the only shared objects touched. *)
(* a GOODBYE arm has run to its end *)
GoodbyeReceived == hist.exits > 0

LateWith(t) == IF GoodbyeReceived THEN hist.late \cup {t} ELSE hist.late

InvokeWith(t, o, id) ==
    /\ ~Busy(t)
    /\ BorrowOk(t, o)
    /\ idgen < MaxId
    /\ idgen' = next_id(idgen)
    /\ request_id' = [request_id EXCEPT ![t] = id]
    /\ op' = [op EXCEPT ![t] = o]
    /\ chan' = [chan EXCEPT ![t] = <<>>]
    /\ ret' = [ret EXCEPT ![t] = NotReturned]
    /\ state' = IF MapOfOp(o) = "none" THEN state
                ELSE [state EXCEPT ![MapOfOp(o)] = Insert(@, id, t)]
    /\ pc' = [pc EXCEPT ![t] = "write"]
    /\ hist' = [hist EXCEPT !.emitted = Append(@, id), !.late = LateWith(t)]
    /\ UNCHANGED <<peer, flavour, wire, tasks, reader_pc, goodbye_chan, exit_chan, answered>>

(* variant: each pending map numbers its own requests *)
InvokePerMapIds(t, o) ==
    InvokeWith(t, o, IF MapOfOp(o) = "none" THEN next_id(idgen)
                     ELSE Cardinality(DOMAIN state[MapOfOp(o)]) + 1)

(* variant: the reply channel is not put into the pending map before the
   frame is written *)
InvokeNoInsert(t, o) ==
    /\ ~Busy(t)
    /\ BorrowOk(t, o)
    /\ idgen < MaxId
    /\ idgen' = next_id(idgen)
    /\ request_id' = [request_id EXCEPT ![t] = next_id(idgen)]
    /\ op' = [op EXCEPT ![t] = o]
    /\ chan' = [chan EXCEPT ![t] = <<>>]
    /\ ret' = [ret EXCEPT ![t] = NotReturned]
    /\ pc' = [pc EXCEPT ![t] = "write"]
    /\ hist' = [hist EXCEPT !.emitted = Append(@, next_id(idgen)), !.late = LateWith(t)]
    /\ UNCHANGED <<peer, flavour, state, wire, tasks, reader_pc, goodbye_chan, exit_chan,
                   answered>>

Invoke(t, o) == InvokeWith(t, o, next_id(idgen))

(* the same entry when proto.send_message returns Err: the id is consumed,
   nothing is inserted or written *)
InvokeErr(t, o) ==
    /\ ~Busy(t)
    /\ BorrowOk(t, o)
    /\ idgen < MaxId
    /\ idgen' = next_id(idgen)
    /\ request_id' = [request_id EXCEPT ![t] = next_id(idgen)]
    /\ op' = [op EXCEPT ![t] = o]
    /\ chan' = [chan EXCEPT ![t] = <<>>]
    /\ ret' = [ret EXCEPT ![t] = Err("proto failed to parse message")]
    /\ pc' = [pc EXCEPT ![t] = "done"]
    /\ hist' = [hist EXCEPT !.emitted = Append(@, next_id(idgen)),
                            !.late = LateWith(t)]
    /\ UNCHANGED <<peer, flavour, state, wire, tasks, reader_pc, goodbye_chan, exit_chan,
                   answered>>

(* peer.write returned Ok(()) *)
WriteOk(t) ==
    /\ pc[t] = "write"
    /\ op[t].name \in {"call", "publish", "register", "subscribe"}
    /\ wire' = Append(wire, RequestFrame(op[t], request_id[t]))
    /\ IF MapOfOp(op[t]) = "none"
       THEN /\ pc' = [pc EXCEPT ![t] = "done"]
            /\ ret' = [ret EXCEPT ![t] = Ok(None, None)]
       ELSE /\ pc' = [pc EXCEPT ![t] = "recv"]
            /\ ret' = ret
    /\ UNCHANGED <<peer, flavour, idgen, state, op, request_id, chan, tasks, reader_pc,
                   goodbye_chan, exit_chan, answered, hist>>

(* variant: the Err arm of peer.write returns without removing the entry *)
WriteErrLeak(t) ==
    /\ pc[t] = "write"
    /\ op[t].name \in {"call", "publish", "register", "subscribe"}
    /\ pc' = [pc EXCEPT ![t] = "done"]
    /\ ret' = [ret EXCEPT ![t] = Err("failed to send message")]
    /\ UNCHANGED <<peer, flavour, idgen, state, op, request_id, chan, wire, tasks, reader_pc,
                   goodbye_chan, exit_chan, answered, hist>>

(* peer.write returned Err: the entry inserted for request_id is removed *)
WriteErr(t) ==
    /\ pc[t] = "write"
    /\ op[t].name \in {"call", "publish", "register", "subscribe"}
    /\ state' = IF MapOfOp(op[t]) = "none" THEN state
                ELSE [state EXCEPT ![MapOfOp(op[t])] = Remove(@, request_id[t])]
    /\ pc' = [pc EXCEPT ![t] = "done"]
    /\ ret' = [ret EXCEPT ![t] = Err("failed to send message")]
    /\ UNCHANGED <<peer, flavour, idgen, op, request_id, chan, wire, tasks, reader_pc,
                   goodbye_chan, exit_chan, answered, hist>>

(* a sender of caller t's reply channel is still alive in some pending map *)
SenderAlive(t) == \E m \in PendingMaps : \E k \in DOMAIN state[m] : state[m][k] = t

(* the registry a sync register / subscribe installs its callback in *)
RegistryOfOp(o) ==
    CASE o.name = "register" -> "registrations"
      [] o.name = "subscribe" -> "subscriptions"
      [] OTHER -> "none"

InstalledId(o, resp) ==
    IF o.name = "register" THEN resp.registration_id ELSE resp.subscription_id

(* register / subscribe of flavour fl insert the callback after recv *)
InstallsIn(fl, o) == fl = "sync" /\ RegistryOfOp(o) # "none"

OtherFlavour == IF flavour = "sync" THEN "async" ELSE "sync"

(* receiver.recv() returned: Ok(response) ends the operation with the response;
   the sync register and subscribe first insert the callback under the id the
   response carries.  Err (every sender dropped, no value) ends it with Err. *)
Recv(t) ==
    /\ pc[t] = "recv"
    /\ op[t].name \in {"call", "publish", "register", "subscribe"}
    /\ IF chan[t] # <<>>
       THEN LET m == Head(chan[t])
                installs == InstallsIn(flavour, op[t])
                id == InstalledId(op[t], m.resp)
            IN
            /\ chan' = [chan EXCEPT ![t] = Tail(@)]
            /\ ret' = [ret EXCEPT ![t] =
                   Ok(IF op[t].name = "publish" THEN Some(m.resp) ELSE m.resp, m.from)]
            /\ state' = IF installs
                        THEN [state EXCEPT ![RegistryOfOp(op[t])] =
                                  Insert(@, id, op[t].handler)]
                        ELSE state
            /\ hist' = [hist EXCEPT
                   !.installed = IF installs /\ m.resp.error = None
                                 THEN @ \cup {<<RegistryOfOp(op[t]), id>>}
                                 ELSE @,
                   !.twin = IF InstallsIn(OtherFlavour, op[t])
                            THEN [@ EXCEPT ![RegistryOfOp(op[t])] =
                                      Insert(@, id, op[t].handler)]
                            ELSE @]
       ELSE /\ ~SenderAlive(t)
            /\ chan' = chan
            /\ ret' = [ret EXCEPT ![t] = Err(op[t].name \o " failed")]
            /\ state' = state
            /\ hist' = hist
    /\ pc' = [pc EXCEPT ![t] = "done"]
    /\ UNCHANGED <<peer, flavour, idgen, op, request_id, wire, tasks, reader_pc,
                   goodbye_chan, exit_chan, answered>>

(* ---- reader: process_incoming_message ---- *)

(* a reply has already been delivered to the caller that owns request id k *)
Delivered(k) ==
    \E t \in Callers :
        /\ request_id[t] = k
        /\ \/ chan[t] # <<>>
           \/ ret[t].status = "Ok" /\ ret[t].from # None

MinKey(m) == CHOOSE k \in DOMAIN m : \A j \in DOMAIN m : k <= j

(* variant: the oldest pending entry of the map is resolved, whatever id the
   frame carries *)
ResolveByArrival(map, f, resp) ==
    IF DOMAIN state[map] # {}
    THEN /\ state' = [state EXCEPT ![map] = Remove(@, MinKey(state[map]))]
         /\ chan' = [chan EXCEPT ![state[map][MinKey(state[map])]] =
                         Append(@, [resp |-> resp, from |-> f])]
         /\ hist' = hist
    ELSE /\ state' = state
         /\ chan' = chan
         /\ hist' = [hist EXCEPT !.dropped = "unknown"]

(* variant: a reply whose id is not in the map resolves the oldest entry *)
ResolveLenient(map, f, resp) ==
    IF f.request_id \in DOMAIN state[map]
    THEN /\ state' = [state EXCEPT ![map] = Remove(@, f.request_id)]
         /\ chan' = [chan EXCEPT ![state[map][f.request_id]] =
                         Append(@, [resp |-> resp, from |-> f])]
         /\ hist' = hist
    ELSE ResolveByArrival(map, f, resp)

(* variant: get() instead of remove(): the entry stays in the map *)
ResolveKeep(map, f, resp) ==
    IF f.request_id \in DOMAIN state[map]
    THEN /\ state' = state
         /\ chan' = [chan EXCEPT ![state[map][f.request_id]] =
                         Append(@, [resp |-> resp, from |-> f])]
         /\ hist' = hist
    ELSE /\ state' = state
         /\ chan' = chan
         /\ hist' = [hist EXCEPT !.dropped = "unknown"]

(* remove(&request_id) on the map; if an entry was there, send resp on it *)
Resolve(map, f, resp) ==
    IF f.request_id \in DOMAIN state[map]
    THEN /\ state' = [state EXCEPT ![map] = Remove(@, f.request_id)]
         /\ chan' = [chan EXCEPT ![state[map][f.request_id]] =
                         Append(@, [resp |-> resp, from |-> f])]
         /\ hist' = [hist EXCEPT !.overlap = @ \/ tasks # <<>>]
    ELSE /\ state' = state
         /\ chan' = chan
         /\ hist' = [hist EXCEPT !.dropped =
                         IF Delivered(f.request_id) THEN "duplicate" ELSE "unknown"]

Registered(f) == Resolve("register_requests", f, RegisterResponse(f.id, None))
Unregistered(f) == Resolve("unregister_requests", f, None)
Result(f) == Resolve("call_requests", f, CallResponse(Some(f.arg), None))
Subscribed(f) == Resolve("subscribe_requests", f, SubscribeResponse(f.id, None))
Unsubscribed(f) == Resolve("unsubscribe_requests", f, None)
Published(f) == Resolve("publish_requests", f, PublishResponse(None))

(* variant: the CALL arm builds the response of the RESULT arm *)
ErrorMsgCallAsResult(f) ==
    CASE f.etype = "CALL" ->
            Resolve("call_requests", f, CallResponse(Some(f.arg), None))
      [] f.etype = "REGISTER" ->
            Resolve("register_requests", f, RegisterResponse(0, Some(WampError(f))))
      [] f.etype = "UNREGISTER" ->
            Resolve("unregister_requests", f, Some(WampError(f)))
      [] f.etype = "SUBSCRIBE" ->
            Resolve("subscribe_requests", f, SubscribeResponse(0, Some(WampError(f))))
      [] f.etype = "UNSUBSCRIBE" ->
            Resolve("unsubscribe_requests", f, Some(WampError(f)))
      [] f.etype = "PUBLISH" ->
            Resolve("publish_requests", f, PublishResponse(Some(WampError(f))))
      [] OTHER -> UNCHANGED <<state, chan, hist>>

(* variant: the PUBLISH arm builds the response of the PUBLISHED arm *)
ErrorMsgPublishNoError(f) ==
    CASE f.etype = "CALL" ->
            Resolve("call_requests", f, CallResponse(None, Some(WampError(f))))
      [] f.etype = "REGISTER" ->
            Resolve("register_requests", f, RegisterResponse(0, Some(WampError(f))))
      [] f.etype = "UNREGISTER" ->
            Resolve("unregister_requests", f, Some(WampError(f)))
      [] f.etype = "SUBSCRIBE" ->
            Resolve("subscribe_requests", f, SubscribeResponse(0, Some(WampError(f))))
      [] f.etype = "UNSUBSCRIBE" ->
            Resolve("unsubscribe_requests", f, Some(WampError(f)))
      [] f.etype = "PUBLISH" ->
            Resolve("publish_requests", f, PublishResponse(None))
      [] OTHER -> UNCHANGED <<state, chan, hist>>

(* variant: the ERROR arm looks the request id up in every pending map,
   whatever originating type the frame names *)
ErrorMsgAnyMap(f) ==
    IF \E m \in PendingMaps : f.request_id \in DOMAIN state[m]
    THEN LET m == CHOOSE x \in PendingMaps : f.request_id \in DOMAIN state[x] IN
         Resolve(m, f,
                 CASE m = "call_requests" -> CallResponse(None, Some(WampError(f)))
                   [] m = "register_requests" -> RegisterResponse(0, Some(WampError(f)))
                   [] m = "subscribe_requests" -> SubscribeResponse(0, Some(WampError(f)))
                   [] m = "publish_requests" -> PublishResponse(Some(WampError(f)))
                   [] OTHER -> Some(WampError(f)))
    ELSE UNCHANGED <<state, chan, hist>>

ErrorMsg(f) ==
    CASE f.etype = "CALL" ->
            Resolve("call_requests", f, CallResponse(None, Some(WampError(f))))
      [] f.etype = "REGISTER" ->
            Resolve("register_requests", f, RegisterResponse(0, Some(WampError(f))))
      [] f.etype = "UNREGISTER" ->
            Resolve("unregister_requests", f, Some(WampError(f)))
      [] f.etype = "SUBSCRIBE" ->
            Resolve("subscribe_requests", f, SubscribeResponse(0, Some(WampError(f))))
      [] f.etype = "UNSUBSCRIBE" ->
            Resolve("unsubscribe_requests", f, Some(WampError(f)))
      [] f.etype = "PUBLISH" ->
            Resolve("publish_requests", f, PublishResponse(Some(WampError(f))))
      [] OTHER -> UNCHANGED <<state, chan, hist>>

process_reply(f) ==
    CASE f.type = "REGISTERED" -> Registered(f)
      [] f.type = "UNREGISTERED" -> Unregistered(f)
      [] f.type = "RESULT" -> Result(f)
      [] f.type = "SUBSCRIBED" -> Subscribed(f)
      [] f.type = "UNSUBSCRIBED" -> Unsubscribed(f)
      [] f.type = "PUBLISHED" -> Published(f)
      [] f.type = "ERROR" -> ErrorMsg(f)

(* variant: the reader runs handlers itself and reads the next frame only when
   none is running *)
DispatchReplyInline(f) ==
    /\ reader_pc = "read"
    /\ tasks = <<>>
    /\ process_reply(f)
    /\ UNCHANGED <<peer, flavour, idgen, pc, op, request_id, ret, wire, tasks, reader_pc,
                   goodbye_chan, exit_chan, answered>>

(* the reader reads a reply frame from the peer, decodes and dispatches it *)
DispatchReply(f) ==
    /\ reader_pc = "read"
    /\ process_reply(f)
    /\ UNCHANGED <<peer, flavour, idgen, pc, op, request_id, ret, wire, tasks, reader_pc,
                   goodbye_chan, exit_chan, answered>>

(* variant: an INVOCATION for an unknown registration is answered with an
   ERROR frame *)
InvocationArmReplies(f) ==
    /\ reader_pc = "read"
    /\ IF f.id \in DOMAIN state.registrations
       THEN /\ Len(tasks) < MaxTasks
            /\ Len(wire) + Len(tasks) < MaxWire
            /\ tasks' = Append(tasks, [kind |-> "invocation",
                                       callback |-> state.registrations[f.id],
                                       request_id |-> f.request_id, arg |-> f.arg,
                                       id |-> f.id])
            /\ wire' = wire
       ELSE /\ Len(wire) + Len(tasks) < MaxWire
            /\ tasks' = tasks
            /\ wire' = Append(wire, Frame("ERROR", f.request_id, 0, "wamp.error", "INVOCATION"))
    /\ UNCHANGED <<peer, flavour, idgen, state, pc, op, request_id, chan, ret, reader_pc,
                   goodbye_chan, exit_chan, answered>>

(* INVOCATION: registrations.get(registration_id); absent: return; present:
   spawn a detached task holding the callback, the request id and the args *)
InvocationArm(f) ==
    /\ reader_pc = "read"
    /\ IF f.id \in DOMAIN state.registrations
       THEN /\ Len(tasks) < MaxTasks
            /\ Len(wire) + Len(tasks) < MaxWire
            /\ tasks' = Append(tasks, [kind |-> "invocation",
                                       callback |-> state.registrations[f.id],
                                       request_id |-> f.request_id, arg |-> f.arg,
                                       id |-> f.id])
       ELSE tasks' = tasks
    /\ UNCHANGED <<peer, flavour, idgen, state, pc, op, request_id, chan, ret, wire, reader_pc,
                   goodbye_chan, exit_chan, answered>>

(* the reader reads an INVOCATION frame from the peer and dispatches it *)
DispatchInvocation(f) ==
    /\ InvocationArm(f)
    /\ UNCHANGED hist

(* EVENT: if subscriptions.get(subscription_id) is present, spawn a detached
   task calling the callback with the event *)
DispatchEvent(f) ==
    /\ reader_pc = "read"
    /\ IF f.id \in DOMAIN state.subscriptions
       THEN /\ Len(tasks) < MaxTasks
            /\ tasks' = Append(tasks, [kind |-> "event",
                                       callback |-> state.subscriptions[f.id],
                                       request_id |-> 0, arg |-> f.arg, id |-> f.id])
       ELSE tasks' = tasks
    /\ hist' = [hist EXCEPT !.events = (@ + 1) % 2]
    /\ UNCHANGED <<peer, flavour, idgen, state, pc, op, request_id, chan, ret, wire, reader_pc,
                   goodbye_chan, exit_chan, answered>>

(* ---- detached handler tasks ---- *)
RemoveAt(s, i) == SubSeq(s, 1, i - 1) \o SubSeq(s, i + 1, Len(s))

(* the registered procedures of the callers echo the invocation: the Yield
   carries inv.args *)
callback(h, arg) == arg

(* variant: the Yield is built with the registration id of the invocation *)
RunInvocationStale(i) ==
    /\ i \in 1..Len(tasks)
    /\ tasks[i].kind = "invocation"
    /\ wire' = Append(wire, Frame("YIELD", tasks[i].id, 0,
                                  callback(tasks[i].callback, tasks[i].arg), "-"))
    /\ tasks' = RemoveAt(tasks, i)
    /\ hist' = [hist EXCEPT !.task_end = "yield"]
    /\ UNCHANGED <<peer, flavour, idgen, state, pc, op, request_id, chan, ret, reader_pc,
                   goodbye_chan, exit_chan, answered>>

(* the task of an INVOCATION: response = callback(inv), build the Yield with
   the invocation's request id, proto.send_message, peer.write = Ok *)
RunInvocation(i) ==
    /\ i \in 1..Len(tasks)
    /\ tasks[i].kind = "invocation"
    /\ wire' = Append(wire, Frame("YIELD", tasks[i].request_id, 0,
                                  callback(tasks[i].callback, tasks[i].arg), "-"))
    /\ tasks' = RemoveAt(tasks, i)
    /\ hist' = [hist EXCEPT !.task_end = "yield"]
    /\ UNCHANGED <<peer, flavour, idgen, state, pc, op, request_id, chan, ret, reader_pc,
                   goodbye_chan, exit_chan, answered>>

(* the same task when peer.write (or proto.send_message) returns Err: the
   error is printed, nothing reaches the peer *)
RunInvocationErr(i) ==
    /\ i \in 1..Len(tasks)
    /\ tasks[i].kind = "invocation"
    /\ tasks' = RemoveAt(tasks, i)
    /\ hist' = [hist EXCEPT !.task_end = "write_err"]
    /\ UNCHANGED <<peer, flavour, idgen, state, pc, op, request_id, chan, ret, wire, reader_pc,
                   goodbye_chan, exit_chan, answered>>

(* the same task when callback(inv) panics: the spawned closure has no
   catch_unwind and builds no ERROR; the thread (the tokio task) ends and
   nothing is written *)
RunInvocationPanic(i) ==
    /\ i \in 1..Len(tasks)
    /\ tasks[i].kind = "invocation"
    /\ tasks' = RemoveAt(tasks, i)
    /\ hist' = [hist EXCEPT !.task_end = "panic"]
    /\ UNCHANGED <<peer, flavour, idgen, state, pc, op, request_id, chan, ret, wire, reader_pc,
                   goodbye_chan, exit_chan, answered>>

(* the task of an EVENT: callback(xevent), no reply *)
RunEvent(i) ==
    /\ i \in 1..Len(tasks)
    /\ tasks[i].kind = "event"
    /\ tasks' = RemoveAt(tasks, i)
    /\ hist' = [hist EXCEPT !.task_end = "event"]
    /\ UNCHANGED <<peer, flavour, idgen, state, pc, op, request_id, chan, ret, wire, reader_pc,
                   goodbye_chan, exit_chan, answered>>

(* ---- mock router: one reply per request, in any order ---- *)
ReplyTypesOf(type) ==
    CASE type = "CALL" -> {"RESULT"}
      [] type = "REGISTER" -> {"REGISTERED"}
      [] type = "SUBSCRIBE" -> {"SUBSCRIBED"}
      [] type = "PUBLISH" -> {"PUBLISHED"}
      [] OTHER -> {}

Answers(f, q) ==
    /\ f.request_id = q.request_id
    /\ \/ f.type \in ReplyTypesOf(q.type)
       \/ f.type = "ERROR" /\ f.etype = q.type

EchoReply(f) ==
    /\ reader_pc = "read"
    /\ f.request_id \notin answered
    /\ \E i \in 1..Len(wire) : Answers(f, wire[i])
    /\ answered' = answered \cup {f.request_id}
    /\ process_reply(f)
    /\ UNCHANGED <<peer, flavour, idgen, pc, op, request_id, ret, wire, tasks, reader_pc,
                   goodbye_chan, exit_chan>>

(* ---- lifecycle: leave, wait_disconnect, GOODBYE, end of the read loop ---- *)

(* capacity of the goodbye and exit channels of the async session
   (mpsc::channel(1)); the channels of the sync session are unbounded *)
ChannelCapacity == 1

HasRoom(n) == flavour = "sync" \/ n < ChannelCapacity

LeaveOp == Op("leave", "absent", 0, "wamp.close.close_realm")
WaitOp == Op("wait_disconnect", "absent", 0, "-")
GoodbyeFrame == Frame("GOODBYE", 0, 0, LeaveOp.arg, "-")

(* the reader holds the lock of goodbye_sent from the start of the GOODBYE arm
   to its end (the guard is bound to goodbye_was_sent) *)
GoodbyeSentLocked == reader_pc \in {"goodbye", "exit"}

(* leave up to peer.write: proto.send_message = Ok, then goodbye_sent = true
   under its lock *)
LeaveInvoke(t) ==
    /\ ~Busy(t)
    /\ BorrowOk(t, LeaveOp)
    /\ ~GoodbyeSentLocked
    /\ hist.leaves < MaxLeaves
    /\ op' = [op EXCEPT ![t] = LeaveOp]
    /\ request_id' = [request_id EXCEPT ![t] = 0]
    /\ chan' = [chan EXCEPT ![t] = <<>>]
    /\ ret' = [ret EXCEPT ![t] = NotReturned]
    /\ state' = [state EXCEPT !.goodbye_sent = TRUE]
    /\ pc' = [pc EXCEPT ![t] = "write"]
    /\ hist' = [hist EXCEPT !.leaves = @ + 1, !.late = LateWith(t)]
    /\ UNCHANGED <<peer, flavour, idgen, wire, tasks, reader_pc, goodbye_chan, exit_chan,
                   answered>>

(* leave: peer.write returned Ok(()) *)
LeaveWriteOk(t) ==
    /\ pc[t] = "write"
    /\ op[t].name = "leave"
    /\ wire' = Append(wire, GoodbyeFrame)
    /\ pc' = [pc EXCEPT ![t] = "recv"]
    /\ UNCHANGED <<peer, flavour, idgen, state, op, request_id, chan, ret, tasks, reader_pc,
                   goodbye_chan, exit_chan, answered, hist>>

(* leave: peer.write returned Err; goodbye_sent stays true *)
LeaveWriteErr(t) ==
    /\ pc[t] = "write"
    /\ op[t].name = "leave"
    /\ pc' = [pc EXCEPT ![t] = "done"]
    /\ ret' = [ret EXCEPT ![t] = Err("failed to send message")]
    /\ UNCHANGED <<peer, flavour, idgen, state, op, request_id, chan, wire, tasks, reader_pc,
                   goodbye_chan, exit_chan, answered, hist>>

(* leave: goodbye_receiver_channel.recv() returned: a signal gives Ok(());
   Err / None (the reader has ended and dropped the sender, no signal is
   queued) gives Err("leave failed") *)
LeaveRecv(t) ==
    /\ pc[t] = "recv"
    /\ op[t].name = "leave"
    /\ IF goodbye_chan > 0
       THEN /\ goodbye_chan' = goodbye_chan - 1
            /\ ret' = [ret EXCEPT ![t] = Ok(None, None)]
            /\ hist' = [hist EXCEPT !.left = @ + 1]
       ELSE /\ reader_pc = "ended"
            /\ goodbye_chan' = goodbye_chan
            /\ ret' = [ret EXCEPT ![t] = Err("leave failed")]
            /\ hist' = hist
    /\ pc' = [pc EXCEPT ![t] = "done"]
    /\ UNCHANGED <<peer, flavour, idgen, state, op, request_id, chan, wire, tasks, reader_pc,
                   exit_chan, answered>>

(* wait_disconnect is called: it locks exist_receiver_channel and waits *)
WaitInvoke(t) ==
    /\ ~Busy(t)
    /\ BorrowOk(t, WaitOp)
    /\ op' = [op EXCEPT ![t] = WaitOp]
    /\ request_id' = [request_id EXCEPT ![t] = 0]
    /\ chan' = [chan EXCEPT ![t] = <<>>]
    /\ ret' = [ret EXCEPT ![t] = NotReturned]
    /\ pc' = [pc EXCEPT ![t] = "recv"]
    /\ UNCHANGED <<peer, flavour, idgen, state, wire, tasks, reader_pc, goodbye_chan,
                   exit_chan, answered, hist>>

Panicked == [status |-> "Panic"]

(* wait_disconnect: exist_receiver_channel.recv() returned: a signal makes it
   return; when the reader has ended and no signal is queued the sync session
   unwraps the Err (panic) and the async session returns on None *)
WaitRecv(t) ==
    /\ pc[t] = "recv"
    /\ op[t].name = "wait_disconnect"
    /\ IF exit_chan > 0
       THEN /\ exit_chan' = exit_chan - 1
            /\ ret' = [ret EXCEPT ![t] = Ok(None, None)]
            /\ hist' = [hist EXCEPT !.waited = @ + 1]
       ELSE /\ reader_pc = "ended"
            /\ exit_chan' = exit_chan
            /\ ret' = [ret EXCEPT ![t] =
                           IF flavour = "sync" THEN Panicked ELSE Ok(None, None)]
            /\ hist' = hist
    /\ pc' = [pc EXCEPT ![t] = "done"]
    /\ UNCHANGED <<peer, flavour, idgen, state, op, request_id, chan, wire, tasks, reader_pc,
                   goodbye_chan, answered>>

(* variant: the GOODBYE arm signals goodbye_acked whatever goodbye_sent is *)
DispatchGoodbyeAlways ==
    /\ reader_pc = "read"
    /\ hist.goodbyes < MaxGoodbyes
    /\ reader_pc' = "goodbye"
    /\ hist' = [hist EXCEPT !.goodbyes = @ + 1,
                            !.flagged = IF state.goodbye_sent THEN @ + 1 ELSE @]
    /\ UNCHANGED <<peer, flavour, idgen, state, pc, op, request_id, chan, ret, wire, tasks,
                   goodbye_chan, exit_chan, answered>>

(* GOODBYE: the reader locks goodbye_sent and reads it *)
DispatchGoodbye ==
    /\ reader_pc = "read"
    /\ hist.goodbyes < MaxGoodbyes
    /\ reader_pc' = IF state.goodbye_sent THEN "goodbye" ELSE "exit"
    /\ hist' = [hist EXCEPT !.goodbyes = @ + 1,
                            !.flagged = IF state.goodbye_sent THEN @ + 1 ELSE @]
    /\ UNCHANGED <<peer, flavour, idgen, state, pc, op, request_id, chan, ret, wire, tasks,
                   goodbye_chan, exit_chan, answered>>

(* GOODBYE, goodbye_sent true: goodbye_sender.send(()) (the async send waits
   for room in the channel) *)
SignalGoodbye ==
    /\ reader_pc = "goodbye"
    /\ HasRoom(goodbye_chan)
    /\ goodbye_chan' = goodbye_chan + 1
    /\ reader_pc' = "exit"
    /\ UNCHANGED <<peer, flavour, idgen, state, pc, op, request_id, chan, ret, wire, tasks,
                   exit_chan, answered, hist>>

(* variant: the exit signal is raised only when no goodbye_acked was *)
SignalExitUnlessAcked ==
    /\ reader_pc = "exit"
    /\ HasRoom(exit_chan)
    /\ IF state.goodbye_sent
       THEN exit_chan' = exit_chan /\ hist' = hist
       ELSE exit_chan' = exit_chan + 1 /\ hist' = [hist EXCEPT !.exits = @ + 1]
    /\ reader_pc' = "read"
    /\ UNCHANGED <<peer, flavour, idgen, state, pc, op, request_id, chan, ret, wire, tasks,
                   goodbye_chan, answered>>

(* GOODBYE: exist_sender.send(()), then the arm ends, the lock of goodbye_sent
   is released and the loop goes on to the next peer.read *)
SignalExit ==
    /\ reader_pc = "exit"
    /\ HasRoom(exit_chan)
    /\ exit_chan' = exit_chan + 1
    /\ reader_pc' = "read"
    /\ hist' = [hist EXCEPT !.exits = @ + 1]
    /\ UNCHANGED <<peer, flavour, idgen, state, pc, op, request_id, chan, ret, wire, tasks,
                   goodbye_chan, answered>>

(* peer.read returned Err, or proto.receive returned Err: the loop ends, the
   reader's senders of the goodbye and exit channels are dropped *)
ReaderEnds ==
    /\ reader_pc = "read"
    /\ reader_pc' = "ended"
    /\ UNCHANGED <<peer, flavour, idgen, state, pc, op, request_id, chan, ret, wire, tasks,
                   goodbye_chan, exit_chan, answered, hist>>

(* ---- specifications ---- *)

(* the four request operations against a router that may send any reply *)
Next ==
    \/ \E t \in Callers : \E o \in Requests(t) : Invoke(t, o)
    \/ \E t \in Callers : \E o \in Requests(t) : InvokeErr(t, o)
    \/ \E t \in Callers : WriteOk(t)
    \/ \E t \in Callers : WriteErr(t)
    \/ \E t \in Callers : Recv(t)
    \/ \E f \in ReplyFrames : DispatchReply(f)

Spec == Init /\ [][Next]_vars

(* call, register, subscribe and publish(acknowledge=true) against the mock
   router *)
EchoRequests(t) == {o \in Requests(t) : MapOfOp(o) # "none"}

NextEcho ==
    \/ \E t \in Callers : \E o \in EchoRequests(t) : Invoke(t, o)
    \/ \E t \in Callers : WriteOk(t)
    \/ \E t \in Callers : Recv(t)
    \/ \E f \in ReplyFrames : EchoReply(f)

SpecEcho == Init /\ [][NextEcho]_vars

(* register and subscribe, their replies, and the INVOCATIONs and EVENTs the
   router sends *)
HandlerRequests(t) == {o \in Requests(t) : o.name \in {"register", "subscribe"}}
HandlerReplies ==
    {f \in ReplyFrames : \/ f.type \in {"REGISTERED", "SUBSCRIBED"}
                         \/ f.type = "ERROR" /\ f.etype \in {"REGISTER", "SUBSCRIBE"}}

NextHandlers ==
    \/ \E t \in Callers : \E o \in HandlerRequests(t) : Invoke(t, o)
    \/ \E t \in Callers : WriteOk(t)
    \/ \E t \in Callers : Recv(t)
    \/ \E f \in HandlerReplies : DispatchReply(f)
    \/ \E f \in InvocationFrames : DispatchInvocation(f)
    \/ \E f \in EventFrames : DispatchEvent(f)
    \/ \E i \in 1..MaxTasks : RunInvocation(i)
    \/ \E i \in 1..MaxTasks : RunInvocationErr(i)
    \/ \E i \in 1..MaxTasks : RunInvocationPanic(i)
    \/ \E i \in 1..MaxTasks : RunEvent(i)

SpecHandlers == Init /\ [][NextHandlers]_vars

(* register, its replies, the INVOCATIONs the router sends and their handler
   tasks *)
RegisterRequests(t) == {o \in Requests(t) : o.name = "register"}
RegisterReplies ==
    {f \in ReplyFrames : \/ f.type = "REGISTERED"
                         \/ f.type = "ERROR" /\ f.etype = "REGISTER"}

NextInvocations ==
    \/ \E t \in Callers : \E o \in RegisterRequests(t) : Invoke(t, o)
    \/ \E t \in Callers : WriteOk(t)
    \/ \E t \in Callers : Recv(t)
    \/ \E f \in RegisterReplies : DispatchReply(f)
    \/ \E f \in InvocationFrames : DispatchInvocation(f)
    \/ \E i \in 1..MaxTasks : RunInvocation(i)
    \/ \E i \in 1..MaxTasks : RunInvocationErr(i)
    \/ \E i \in 1..MaxTasks : RunInvocationPanic(i)

(* a spawned handler thread (tokio task) is scheduled and its callback returns
   or panics: a handler task does not stay unrun forever *)
TaskStep ==
    \E i \in 1..MaxTasks :
        RunInvocation(i) \/ RunInvocationErr(i) \/ RunInvocationPanic(i)

SpecInvocationsFair == Init /\ [][NextInvocations]_vars /\ WF_vars(TaskStep)

(* subscribe, its replies, the EVENTs the router sends and their handler
   tasks *)
SubscribeRequests(t) == {o \in Requests(t) : o.name = "subscribe"}
SubscribeReplies ==
    {f \in ReplyFrames : \/ f.type = "SUBSCRIBED"
                         \/ f.type = "ERROR" /\ f.etype = "SUBSCRIBE"}

NextEvents ==
    \/ \E t \in Callers : \E o \in SubscribeRequests(t) : Invoke(t, o)
    \/ \E t \in Callers : WriteOk(t)
    \/ \E t \in Callers : Recv(t)
    \/ \E f \in SubscribeReplies : DispatchReply(f)
    \/ \E f \in EventFrames : DispatchEvent(f)
    \/ \E i \in 1..MaxTasks : RunEvent(i)

SpecEvents == Init /\ [][NextEvents]_vars

(* SubscribeResponse::unsubscribe, the only unsubscribe / unregister entry
   point there is: it prints the subscription id and returns; the session is
   not involved *)
Unsubscribe(t) ==
    /\ pc[t] = "done"
    /\ op[t].name = "subscribe"
    /\ ret[t].status = "Ok"
    /\ hist' = [hist EXCEPT !.unsubscribed = @ \cup {ret[t].value.subscription_id}]
    /\ UNCHANGED <<peer, flavour, idgen, state, pc, op, request_id, chan, ret, wire, tasks,
                   reader_pc, goodbye_chan, exit_chan, answered>>

UnsubscribedFrames == {f \in ReplyFrames : f.type = "UNSUBSCRIBED"}

(* subscribe, unsubscribe, the router's SUBSCRIBED / UNSUBSCRIBED and EVENTs *)
NextUnsubscribe ==
    \/ NextEvents
    \/ \E t \in Callers : Unsubscribe(t)
    \/ \E f \in UnsubscribedFrames : DispatchReply(f)

SpecUnsubscribe == Init /\ [][NextUnsubscribe]_vars

(* call, leave and wait_disconnect; the router sends RESULTs and GOODBYEs, the
   transport may fail *)
CallRequests(t) == {o \in Requests(t) : o.name = "call"}
ResultFrames == {f \in ReplyFrames : f.type = "RESULT"}

NextLifecycle ==
    \/ \E t \in Callers : \E o \in CallRequests(t) : Invoke(t, o)
    \/ \E t \in Callers : WriteOk(t)
    \/ \E t \in Callers : WriteErr(t)
    \/ \E t \in Callers : Recv(t)
    \/ \E t \in Callers : LeaveInvoke(t)
    \/ \E t \in Callers : LeaveWriteOk(t)
    \/ \E t \in Callers : LeaveWriteErr(t)
    \/ \E t \in Callers : LeaveRecv(t)
    \/ \E t \in Callers : WaitInvoke(t)
    \/ \E t \in Callers : WaitRecv(t)
    \/ \E f \in ResultFrames : DispatchReply(f)
    \/ DispatchGoodbye
    \/ SignalGoodbye
    \/ SignalExit
    \/ ReaderEnds

SpecLifecycle == Init /\ [][NextLifecycle]_vars

(* ---- properties ---- *)

(* the request frame of the operation caller t is running or has just ended *)
Own(t) == RequestFrame(op[t], request_id[t])

(* what sits in caller t's reply channel came from a frame answering Own(t) *)
ChanPaired(t) == \A i \in 1..Len(chan[t]) : Answers(chan[t][i].from, Own(t))

(* C1: against a router that sends one reply per request in any order, every
   caller ends up with exactly one reply, and that reply is the one carrying
   the request id of the caller's own request frame: a reply the router has
   sent is in the caller's channel or has been returned, never more than one,
   and an operation only returns with such a reply. *)
C1_ReplyPairedById ==
    \A t \in Callers :
        /\ Len(chan[t]) <= 1
        /\ ChanPaired(t)
        /\ pc[t] = "recv" /\ request_id[t] \in answered => Len(chan[t]) = 1
        /\ pc[t] = "recv" /\ request_id[t] \notin answered => chan[t] = <<>>
        /\ pc[t] = "done" =>
              /\ ret[t].status = "Ok"
              /\ Answers(ret[t].from, Own(t))
              /\ request_id[t] \in answered
              /\ chan[t] = <<>>

(* two requests are on the wire, the later one has been answered and returned
   while the earlier one is still waiting *)
C1_Witness ==
    \E t \in Callers, u \in Callers :
        /\ request_id[t] < request_id[u]
        /\ pc[u] = "done" /\ ret[u].status = "Ok"
        /\ pc[t] = "recv" /\ chan[t] = <<>>
        /\ Len(wire) = 2 /\ wire[1].request_id = request_id[t]

(* C2: a request id is a key of at most one pending map, and once a reply for
   an id has been delivered to a reply channel the id is a key of no pending
   map (the entry is removed no later than the delivery). *)
MapsHolding(k) == {m \in PendingMaps : k \in DOMAIN state[m]}

C2_OneMapRemovedOnDelivery ==
    /\ \A k \in RequestIds : Cardinality(MapsHolding(k)) <= 1
    /\ \A t \in Callers : \A i \in 1..Len(chan[t]) :
           MapsHolding(chan[t][i].from.request_id) = {}

(* a reply has just been delivered while another request is still pending *)
C2_Witness ==
    \E t \in Callers :
        /\ chan[t] # <<>>
        /\ \E k \in RequestIds : k # request_id[t] /\ MapsHolding(k) # {}

(* C3: a reply channel receives at most one value: of several replies with
   one request id only the first reaches the originator, and the later ones
   reach nobody. *)
ValuesReceived(t) ==
    Len(chan[t]) + (IF ret[t].status = "Ok" /\ ret[t].from # None THEN 1 ELSE 0)

C3_AtMostOneDelivery ==
    \A t \in Callers :
        /\ ValuesReceived(t) <= 1
        /\ \A i \in 1..Len(chan[t]) : chan[t][i].from.request_id = request_id[t]

(* a second reply for an id whose reply had been delivered was dropped, and
   the originator holds exactly the first one *)
C3_Witness ==
    /\ hist.dropped = "duplicate"
    /\ \E t \in Callers : ValuesReceived(t) = 1 /\ pc[t] = "done"

(* C4: when N calls have had their request written, none is still between
   the insert of its entry and the end of its write, and no reply to any of
   them has been dispatched, call_requests holds exactly N entries; once a
   reply has been dispatched for each of them, call_requests is empty. *)
CallsWritten == {wire[i].request_id : i \in {j \in 1..Len(wire) : wire[j].type = "CALL"}}
CallInWrite == \E t \in Callers : op[t].name = "call" /\ pc[t] = "write"

C4_PendingCallsCount ==
    ~CallInWrite =>
        /\ CallsWritten \cap answered = {} =>
               Cardinality(DOMAIN state.call_requests) = Cardinality(CallsWritten)
        /\ CallsWritten \subseteq answered => DOMAIN state.call_requests = {}

(* two calls are written and unanswered, and both are pending *)
C4_Witness ==
    /\ ~CallInWrite
    /\ Cardinality(CallsWritten) = 2
    /\ CallsWritten \cap answered = {}
    /\ Cardinality(DOMAIN state.call_requests) = 2

(* C5: the request ids handed out in a session, whatever the operation and
   whether or not its frame is written, are strictly increasing (hence
   pairwise distinct), and an id is never a key of a pending map at the
   moment it is handed out. *)
Increasing(s) == \A i \in 1..Len(s) : \A j \in 1..Len(s) : i < j => s[i] < s[j]
NewIdFresh ==
    Len(hist.emitted') > Len(hist.emitted) =>
        hist.emitted'[Len(hist.emitted')] \notin PendingKeys

C5_FreshIncreasingIds == [](Increasing(hist.emitted)) /\ [][NewIdFresh]_vars

(* two ids were handed out, one to an unacknowledged publish and one to an
   operation whose write failed *)
C5_Witness ==
    /\ Len(hist.emitted) = 2
    /\ \E t \in Callers, u \in Callers :
          /\ op[t].name = "publish" /\ ~Acknowledge(op[t]) /\ pc[t] = "done"
          /\ ret[u] = Err("failed to send message") /\ op[u].name = "register"

(* C6: a publish whose acknowledge option is absent or false never owns an
   entry of a pending map, never waits for a reply, writes exactly one PUBLISH
   frame and returns "no reply" when the write has succeeded, whatever replies
   the router sends. *)
Unacked(t) == op[t].name = "publish" /\ op[t].ack \in {"absent", "false"}
FramesOf(k) == {i \in 1..Len(wire) : wire[i].request_id = k /\ wire[i].type # "YIELD"}

C6_UnackedPublish ==
    \A t \in Callers : Unacked(t) =>
        /\ MapsHolding(request_id[t]) = {}
        /\ ~SenderAlive(t)
        /\ pc[t] \in {"write", "done"}
        /\ pc[t] = "write" => FramesOf(request_id[t]) = {}
        /\ pc[t] = "done" /\ ret[t].status = "Err" => FramesOf(request_id[t]) = {}
        /\ pc[t] = "done" /\ ret[t].status = "Ok" =>
              /\ ret[t].value = None
              /\ Cardinality(FramesOf(request_id[t])) = 1
              /\ \A i \in FramesOf(request_id[t]) : wire[i].type = "PUBLISH"

(* an unacknowledged publish has returned "no reply" and a reply the router
   sent afterwards for an id nobody waits for was dropped *)
C6_Witness ==
    \E t \in Callers :
        /\ Unacked(t) /\ pc[t] = "done" /\ ret[t].status = "Ok"
        /\ hist.dropped = "unknown"

(* C7: a publish with acknowledge = true owns an entry of publish_requests
   until a PUBLISHED or ERROR(type=PUBLISH) with its request id has been
   dispatched, returns a response only after that, and the response has
   error = None for PUBLISHED and the frame's error for ERROR. *)
Acked(t) == op[t].name = "publish" /\ Acknowledge(op[t])

C7_AckedPublish ==
    \A t \in Callers : Acked(t) =>
        /\ pc[t] \in {"write", "recv"} /\ chan[t] = <<>> =>
              /\ request_id[t] \in DOMAIN state.publish_requests
              /\ state.publish_requests[request_id[t]] = t
        /\ pc[t] = "done" /\ ret[t].status = "Ok" =>
              /\ ret[t].from.request_id = request_id[t]
              /\ \/ /\ ret[t].from.type = "PUBLISHED"
                    /\ ret[t].value = Some(PublishResponse(None))
                 \/ /\ ret[t].from.type = "ERROR" /\ ret[t].from.etype = "PUBLISH"
                    /\ ret[t].value = Some(PublishResponse(Some(WampError(ret[t].from))))

(* an acknowledged publish has returned the error of an ERROR(type=PUBLISH) *)
C7_Witness ==
    \E t \in Callers :
        /\ Acked(t) /\ pc[t] = "done" /\ ret[t].status = "Ok"
        /\ ret[t].from.type = "ERROR"
        /\ ret[t].value.val.error # None

(* C8: dispatching a RESULT, REGISTERED, SUBSCRIBED, PUBLISHED or ERROR whose
   request id is not a key of the map its type selects changes no pending
   map, no registry and no lifecycle flag, delivers nothing, writes nothing,
   and leaves the reader ready for the next frame. *)
SelectedMap(f) ==
    CASE f.type = "RESULT" -> "call_requests"
      [] f.type = "REGISTERED" -> "register_requests"
      [] f.type = "SUBSCRIBED" -> "subscribe_requests"
      [] f.type = "PUBLISHED" -> "publish_requests"
      [] f.type = "UNREGISTERED" -> "unregister_requests"
      [] f.type = "UNSUBSCRIBED" -> "unsubscribe_requests"
      [] OTHER -> MapOfType(f.etype)

Unsolicited(f) ==
    \/ SelectedMap(f) = "none"
    \/ f.request_id \notin DOMAIN state[SelectedMap(f)]

NothingHappened ==
    /\ UNCHANGED <<state, chan, ret, pc, op, request_id, wire, tasks,
                   goodbye_chan, exit_chan, idgen>>
    /\ reader_pc' = "read"

UnsolicitedIgnored ==
    \/ NothingHappened
    \/ \A f \in ReplyFrames : ~(Unsolicited(f) /\ DispatchReply(f))

C8_UnsolicitedIgnored == [][UnsolicitedIgnored]_vars

(* a reply nobody waits for has been dropped while a request was pending *)
C8_Witness ==
    /\ hist.dropped = "unknown"
    /\ PendingKeys # {}

(* C9: in the sync and in the async session, at the moment register (resp.
   subscribe) returns a successful response carrying id r, registrations
   (resp. subscriptions) maps r to the callback of the request. *)
ReturnsInstalled(t) ==
    /\ pc[t] = "recv" /\ pc'[t] = "done"
    /\ RegistryOfOp(op[t]) # "none"
    /\ ret'[t].status = "Ok"
    /\ ret'[t].value.error = None
    => LET id == InstalledId(op[t], ret'[t].value) IN
       /\ id \in DOMAIN state'[RegistryOfOp(op[t])]
       /\ state'[RegistryOfOp(op[t])][id] = op[t].handler

C9_InstalledOnReturn == [][\A t \in Callers : ReturnsInstalled(t)]_vars

(* C10: a handler task is spawned for registration / subscription id x only
   if, when the reader dispatches the INVOCATION / EVENT, x is a key of the
   registry, maps to the callback that is run, and was installed by a
   successful register / subscribe. *)
RegistryOfTask(k) == IF k.kind = "invocation" THEN "registrations" ELSE "subscriptions"

SpawnedForPresentId ==
    Len(tasks') > Len(tasks) =>
        LET k == tasks'[Len(tasks')] IN
        /\ k.id \in DOMAIN state[RegistryOfTask(k)]
        /\ state[RegistryOfTask(k)][k.id] = k.callback

SpawnedForInstalledId ==
    Len(tasks') > Len(tasks) =>
        LET k == tasks'[Len(tasks')] IN
        <<RegistryOfTask(k), k.id>> \in hist.installed

C10_InvokedOnlyIfInstalled == [][SpawnedForPresentId /\ SpawnedForInstalledId]_vars

(* C11: an INVOCATION whose registration id is in registrations spawns exactly
   one handler task holding the frame's request id and args; that task ends
   exactly once, and unless the callback panics or the write fails it ends by
   appending exactly one YIELD carrying the invocation's request id and what
   the callback returned (the invocation's own args for an echo handler);
   nothing else writes a YIELD; and a handler task waits on nothing: tasks
   end again and again unless from some point on there is none. *)
InvocationTask(f) ==
    [kind |-> "invocation", callback |-> state.registrations[f.id],
     request_id |-> f.request_id, arg |-> f.arg, id |-> f.id]

YieldOf(k) == Frame("YIELD", k.request_id, 0, callback(k.callback, k.arg), "-")

OneTaskPerInvocation ==
    \A f \in InvocationFrames :
        f.id \in DOMAIN state.registrations /\ DispatchInvocation(f) =>
            tasks' = Append(tasks, InvocationTask(f)) /\ wire' = wire

YieldWritten == Len(wire') > Len(wire) /\ wire'[Len(wire')].type = "YIELD"

OneYieldPerTask ==
    /\ YieldWritten =>
          \E i \in 1..Len(tasks) :
              /\ tasks[i].kind = "invocation"
              /\ tasks' = RemoveAt(tasks, i)
              /\ wire' = Append(wire, YieldOf(tasks[i]))
    /\ Len(tasks') < Len(tasks) /\ hist'.task_end = "yield" =>
          /\ YieldWritten
          /\ Len(wire') = Len(wire) + 1
          /\ Len(tasks') = Len(tasks) - 1

C11_OneYieldPerInvocation ==
    /\ [][OneTaskPerInvocation /\ OneYieldPerTask]_vars
    /\ (<>[](tasks = <<>>) \/ []<><<TaskStep>>_vars)

(* the handler of an INVOCATION with request id 2 and args "b" has run and its
   YIELD, with request id 2 and args "b", is on the wire *)
C11_Witness ==
    /\ hist.task_end = "yield"
    /\ \E i \in 1..Len(wire) :
          wire[i].type = "YIELD" /\ wire[i].request_id = 2 /\ wire[i].arg = "b"

(* C12: when the callback of an INVOCATION fails, the step that ends its task
   writes an ERROR frame with type INVOCATION and the invocation's request id
   (and no YIELD), returns nothing to any caller, and leaves the reader
   running. *)
HandlerFailed == Len(tasks') < Len(tasks) /\ hist'.task_end = "panic"

HandlerFailureReported ==
    HandlerFailed =>
        \E i \in 1..Len(tasks) :
            /\ tasks' = RemoveAt(tasks, i)
            /\ wire' = Append(wire, Frame("ERROR", tasks[i].request_id, 0,
                                          "wamp.error.runtime_error", "INVOCATION"))
            /\ ret' = ret
            /\ reader_pc' = "read"

C12_HandlerFailureReported == [][HandlerFailureReported]_vars

(* C13: once a subscribe has returned a successful response with subscription
   id s, the dispatch of an EVENT for s spawns exactly one handler task with
   the subscriber's callback and the frame's payload and writes nothing; the
   task calls the callback once and writes nothing; an EVENT whose id is not
   in subscriptions spawns nothing. *)
SubscribedAs(t, s) ==
    /\ op[t].name = "subscribe" /\ pc[t] = "done"
    /\ ret[t].status = "Ok"
    /\ ret[t].value.error = None
    /\ ret[t].value.subscription_id = s

EventTask(t, f) ==
    [kind |-> "event", callback |-> op[t].handler, request_id |-> 0,
     arg |-> f.arg, id |-> f.id]

EventInvokesHandler ==
    \A f \in EventFrames : DispatchEvent(f) =>
        /\ wire' = wire
        /\ (\E t \in Callers : SubscribedAs(t, f.id)) =>
               \E t \in Callers :
                   SubscribedAs(t, f.id) /\ tasks' = Append(tasks, EventTask(t, f))
        /\ f.id \notin DOMAIN state.subscriptions => tasks' = tasks

EventHandlerSilent ==
    Len(tasks') < Len(tasks) /\ hist'.task_end = "event" =>
        wire' = wire /\ Len(tasks') = Len(tasks) - 1

C13_EventInvokesHandler == [][EventInvokesHandler /\ EventHandlerSilent]_vars

(* C14: dispatching an ERROR(type=CALL) whose request id is pending in
   call_requests delivers CallResponse{args: None, error: the frame's error}
   to the channel of the call that owns the id and to nobody else, removes
   that entry only, changes no other pending map, registry, lifecycle flag,
   signal or handler task, and leaves the reader reading; the call returns
   exactly that response. *)
CallErrorFrames == {f \in ReplyFrames : f.type = "ERROR" /\ f.etype = "CALL"}

CallErrorResponse(f) == CallResponse(None, Some(WampError(f)))

CallErrorDelivered ==
    \A f \in CallErrorFrames :
        f.request_id \in DOMAIN state.call_requests /\ DispatchReply(f) =>
            LET t == state.call_requests[f.request_id] IN
            /\ chan' = [chan EXCEPT ![t] =
                            Append(@, [resp |-> CallErrorResponse(f), from |-> f])]
            /\ state' = [state EXCEPT !.call_requests = Remove(@, f.request_id)]
            /\ reader_pc' = "read"
            /\ UNCHANGED <<pc, op, ret, tasks, wire, goodbye_chan, exit_chan>>

CallErrorReturned ==
    \A t \in Callers :
        /\ op[t].name = "call" /\ pc[t] = "done" /\ ret[t].status = "Ok"
        /\ ret[t].from.type = "ERROR"
        => /\ ret[t].from.etype = "CALL"
           /\ ret[t].from.request_id = request_id[t]
           /\ ret[t].value = CallErrorResponse(ret[t].from)

C14_CallErrorNonFatal == []CallErrorReturned /\ [][CallErrorDelivered]_vars

(* a call has returned the error of an ERROR(type=CALL) while the request of
   another caller is still pending and the reader is still reading *)
C14_Witness ==
    \E t \in Callers, u \in Callers :
        /\ op[t].name = "call" /\ pc[t] = "done" /\ ret[t].status = "Ok"
        /\ ret[t].value.error = Some([uri |-> "wamp.error"])
        /\ pc[u] = "recv" /\ request_id[u] \in PendingKeys
        /\ reader_pc = "read"

(* C15: when peer.write fails inside call, register, subscribe or
   publish(acknowledge=true) the operation returns an error, nothing of it is
   on the wire, its request id is a key of no pending map afterwards, and
   every other entry of every pending map is what it was; an operation that
   has returned a write failure owns no pending entry. *)
WriteFailed(t) ==
    /\ pc[t] = "write" /\ pc'[t] = "done"
    /\ MapOfOp(op[t]) # "none"
    /\ ret'[t].status = "Err"

WriteFailureCleansUp ==
    \A t \in Callers : WriteFailed(t) =>
        /\ ret'[t] = Err("failed to send message")
        /\ wire' = wire
        /\ \A m \in PendingMaps :
              /\ DOMAIN state'[m] = DOMAIN state[m] \ {request_id[t]}
              /\ \A k \in DOMAIN state'[m] : state'[m][k] = state[m][k]

WriteFailureOwnsNothing ==
    \A t \in Callers :
        pc[t] = "done" /\ ret[t] = Err("failed to send message") =>
            /\ request_id[t] \notin PendingKeys
            /\ ~SenderAlive(t)

C15_WriteFailureCleansUp == []WriteFailureOwnsNothing /\ [][WriteFailureCleansUp]_vars

(* the write of a call has failed while the request of another caller is
   pending: the call returned the error and only the other entry is left *)
C15_Witness ==
    \E t \in Callers, u \in Callers :
        /\ op[t].name = "call" /\ pc[t] = "done"
        /\ ret[t] = Err("failed to send message")
        /\ pc[u] = "recv" /\ PendingKeys = {request_id[u]}

(* ---- C16 ---- *)

LeaveStarted(t) == op[t].name = "leave" /\ pc[t] \in {"write", "recv", "done"}
LeaveReturnedOk(t) == op[t].name = "leave" /\ pc[t] = "done" /\ ret[t].status = "Ok"

(* goodbye_sent is true from the moment leave goes on to write *)
LeaveSetsGoodbyeSent == \A t \in Callers : LeaveStarted(t) => state.goodbye_sent

(* every GOODBYE frame on the wire carries wamp.close.close_realm *)
GoodbyeReasonOnWire ==
    \A i \in 1..Len(wire) : wire[i].type = "GOODBYE" => wire[i] = GoodbyeFrame

(* a leave whose write succeeds puts exactly one GOODBYE frame on the wire, and
   nothing else ever puts one there *)
LeaveWritesOneGoodbye ==
    /\ \A t \in Callers :
          (op[t].name = "leave" /\ pc[t] = "write" /\ pc'[t] = "recv")
              => wire' = Append(wire, GoodbyeFrame)
    /\ (Len(wire') > Len(wire) /\ wire'[Len(wire')].type = "GOODBYE")
          => (\E t \in Callers :
                 op[t].name = "leave" /\ pc[t] = "write" /\ pc'[t] = "recv")

(* goodbye_acked signals come only from GOODBYE frames dispatched while
   goodbye_sent was true, one each, and each successful leave has taken one *)
AckedOnlyWhenSent ==
    hist.left + goodbye_chan + (IF reader_pc = "goodbye" THEN 1 ELSE 0) = hist.flagged

(* a leave returns Ok exactly by taking a goodbye_acked signal *)
LeaveReturnsOnAck ==
    \A t \in Callers :
        (~LeaveReturnedOk(t) /\ LeaveReturnedOk(t)')
            => (pc[t] = "recv" /\ goodbye_chan > 0 /\ goodbye_chan' = goodbye_chan - 1)

(* a leave that waits while a goodbye_acked signal is queued can return *)
LeaveCanReturn ==
    \A t \in Callers :
        (op[t].name = "leave" /\ pc[t] = "recv" /\ goodbye_chan > 0)
            => ENABLED LeaveRecv(t)

(* C16: leave writes exactly one GOODBYE with reason wamp.close.close_realm and
   sets goodbye_sent; it can return once a goodbye_acked signal is queued and
   returns success only after a GOODBYE has been
   dispatched while goodbye_sent was true (by taking the goodbye_acked signal
   of that dispatch); a GOODBYE dispatched while goodbye_sent is false raises
   no goodbye_acked signal *)
C16_LeaveHandshake ==
    /\ [](LeaveSetsGoodbyeSent /\ GoodbyeReasonOnWire /\ AckedOnlyWhenSent
            /\ LeaveCanReturn)
    /\ [][LeaveWritesOneGoodbye /\ LeaveReturnsOnAck]_vars

(* a leave has returned Ok although an earlier GOODBYE was dispatched while
   goodbye_sent was false *)
C16_Witness ==
    /\ \E t \in Callers : LeaveReturnedOk(t)
    /\ hist.goodbyes > hist.flagged
    /\ \E i \in 1..Len(wire) : wire[i] = GoodbyeFrame

(* ---- C17 ---- *)

AtExitSend == IF reader_pc = "exit" THEN 1 ELSE 0
InGoodbyeArm == IF reader_pc \in {"goodbye", "exit"} THEN 1 ELSE 0

(* every leave that returned Ok was acknowledged by a GOODBYE dispatch that has
   raised exit or is at its exit send *)
ExitRaisedOrNext == hist.left <= hist.exits + AtExitSend

(* every dispatched GOODBYE raises exit once, at the end of its arm *)
EveryGoodbyeRaisesExit == hist.exits + InGoodbyeArm = hist.goodbyes

(* a raised exit signal stays queued until a wait_disconnect takes it *)
ExitSignalKept == exit_chan + hist.waited = hist.exits

(* at its exit send the reader can go on, or a signal is already queued *)
ExitSendProceeds == reader_pc = "exit" => (ENABLED SignalExit \/ exit_chan > 0)

(* a wait_disconnect that waits while an exit signal is queued can return *)
WaitCanReturn ==
    \A t \in Callers :
        (op[t].name = "wait_disconnect" /\ pc[t] = "recv" /\ exit_chan > 0)
            => ENABLED WaitRecv(t)

(* from the reader's exit send to the raised signal no frame is dispatched *)
ExitSendReadsNothing ==
    reader_pc = "exit"
        => /\ reader_pc' \in {"exit", "read"}
           /\ reader_pc' = "read" => exit_chan' = exit_chan + 1
           /\ hist'.goodbyes = hist.goodbyes /\ tasks' = tasks
           /\ \A t \in Callers : Len(chan'[t]) <= Len(chan[t])

(* C17 (amended): when leave has returned success, the exit signal of the
   GOODBYE that acknowledged it has been raised or is the reader's next step
   (it is past goodbye_acked in the same GOODBYE arm and raises exit before it
   reads another frame), so a wait_disconnect started then completes without
   any further inbound frame unless another wait_disconnect has taken the
   signal *)
C17_ExitFollowsLeave ==
    /\ [](ExitRaisedOrNext /\ EveryGoodbyeRaisesExit /\ ExitSignalKept
            /\ ExitSendProceeds /\ WaitCanReturn)
    /\ [][ExitSendReadsNothing]_vars

(* leave has returned Ok while the reader is still at the exit send of the
   GOODBYE that acknowledged it, no exit signal raised so far *)
C17_Witness ==
    /\ \E t \in Callers : LeaveReturnedOk(t)
    /\ reader_pc = "exit"
    /\ hist.exits = 0

(* C17 as stated: in every state where leave has returned, the exit signal has
   already been raised *)
C17_ExitRaisedAtReturn == (\E t \in Callers : LeaveReturnedOk(t)) => hist.exits > 0

(* ---- C18 ---- *)

RejectedOps == {"call", "publish", "register", "subscribe", "leave"}

(* an op invoked after GOODBYE never gets to write its frame and wait, and when
   it ends it ends with an error *)
LateOpFails ==
    \A t \in hist.late :
        op[t].name \in RejectedOps
            => /\ ~(pc[t] = "write" /\ pc'[t] = "recv")
               /\ (pc[t] # "done" /\ pc'[t] = "done") => ret'[t].status = "Err"
               /\ pc[t] = "write" => wire' = wire

(* C18: after the router's GOODBYE has been dispatched every op invoked
   afterwards (call, publish, register, subscribe, leave) fails with an error
   instead of writing a frame and waiting for a reply *)
C18_OpsFailAfterGoodbye == [][LateOpFails]_vars

(* ---- C19 ---- *)

(* the reader hands a response to a waiting caller *)
RequestResolved == \E t \in Callers : Len(chan'[t]) > Len(chan[t])

(* the reader spawns a handler task *)
HandlerInvoked == Len(tasks') > Len(tasks)

(* C19: once a GOODBYE has been dispatched the read loop is over: no frame that
   follows it is dispatched, so no pending request is resolved and no handler
   is invoked after it *)
C19_GoodbyeEndsReadLoop ==
    [][GoodbyeReceived => (~RequestResolved /\ ~HandlerInvoked)]_vars

(* ---- C20 ---- *)

(* the read loop has ended, or a GOODBYE arm has run to its end *)
Closed == reader_pc = "ended" \/ GoodbyeReceived

(* caller t waits on its reply channel *)
WaitsForReply(t) == pc[t] = "recv" /\ MapOfOp(op[t]) # "none"

(* the recv of caller t can return: a response is queued or the sender of the
   channel is gone *)
Released(t) == chan[t] # <<>> \/ ~SenderAlive(t)

(* C20: when the session is Closed every op that waits on a pending reply
   channel is released (its recv returns), and once no op is between its insert
   and its write all pending maps are empty *)
C20_ClosedReleasesWaiters ==
    Closed => /\ \A t \in Callers : WaitsForReply(t) => Released(t)
              /\ (\A t \in Callers : pc[t] # "write") => PendingKeys = {}

(* ---- C21 ---- *)

(* the step on which the read loop ends *)
ReaderTerminates == reader_pc # "ended" /\ reader_pc' = "ended"

(* a wait_disconnect that has returned has returned normally *)
WaitReturnsNormally ==
    \A t \in Callers :
        (op[t].name = "wait_disconnect" /\ pc[t] = "done") => ret[t].status = "Ok"

(* C21: a read or decode error ends the reader and raises the exit signal on
   the same step, and a wait_disconnect never ends in a panic *)
C21_ReadErrorRaisesExit ==
    /\ []WaitReturnsNormally
    /\ [][ReaderTerminates => hist'.exits = hist.exits + 1 /\ exit_chan' = exit_chan + 1]_vars

(* ---- C22 ---- *)

(* the step on which unsubscribe is called on subscription id s *)
UnsubscribeCalled(s) == s \notin hist.unsubscribed /\ s \in hist'.unsubscribed

(* unsubscribe takes a fresh request id, records it in unsubscribe_requests and
   goes on to write UNSUBSCRIBE *)
UnsubscribeSendsRequest ==
    \A s \in RouterIds \cup {0} :
        UnsubscribeCalled(s) =>
            /\ idgen' = next_id(idgen)
            /\ idgen' \in DOMAIN state'.unsubscribe_requests

(* no EVENT handler is spawned for a subscription id once unsubscribe has
   returned for it (unsubscribe returns on the step it is called) *)
NoEventAfterUnsubscribed ==
    (Len(tasks') > Len(tasks) /\ tasks'[Len(tasks')].kind = "event")
        => tasks'[Len(tasks')].id \notin hist.unsubscribed

(* C22: unsubscribe(subscription_id) sends UNSUBSCRIBE under a fresh request id
   recorded in the unsubscribes pending map, and once it is done EVENTs for
   that subscription id invoke no handler (unregister: the same for
   registrations and INVOCATIONs) *)
C22_UnsubscribeRemoves == [][UnsubscribeSendsRequest /\ NoEventAfterUnsubscribed]_vars

(* ---- C23 ---- *)

(* the handler the session of the other flavour would invoke for a frame with
   id x of registry r, None if it would invoke none *)
TwinHandler(r, x) ==
    IF x \in DOMAIN hist.twin[r] THEN Some(hist.twin[r][x]) ELSE None

ThisHandler(r, x) ==
    IF x \in DOMAIN state[r] THEN Some(state[r][x]) ELSE None

(* on every INVOCATION and EVENT both flavours invoke the same handler or both
   invoke none *)
SameHandlersInvoked ==
    /\ \A f \in InvocationFrames :
          DispatchInvocation(f) =>
              ThisHandler("registrations", f.id) = TwinHandler("registrations", f.id)
    /\ \A f \in EventFrames :
          DispatchEvent(f) =>
              ThisHandler("subscriptions", f.id) = TwinHandler("subscriptions", f.id)

(* C23: after the same ops and the same inbound frames the sync and the async
   session invoke the same handlers (and so write the same YIELD frames) *)
C23_FlavoursInvokeSameHandlers == [][SameHandlersInvoked]_vars

(* ---- C24 ---- *)

(* while handler tasks are live the reader, back at peer.read, can dispatch
   every reply frame *)
ReaderNotStalled ==
    (tasks # <<>> /\ reader_pc = "read")
        => \A f \in RegisterReplies : ENABLED DispatchReply(f)

(* a handler task holds none of the session's locks and is waited for by
   nobody: spawning it leaves the reader at peer.read *)
SpawnLeavesReaderReading ==
    Len(tasks') > Len(tasks) => (reader_pc = "read" /\ reader_pc' = "read")

(* while handler tasks are live the reader resolves pending requests: when it
   takes an entry out of a pending map the response goes to a caller *)
DeliversWhileRunning ==
    (/\ tasks # <<>>
     /\ pc' = pc
     /\ \E m \in PendingMaps : DOMAIN state'[m] # DOMAIN state[m])
        => \E t \in Callers : Len(chan'[t]) = Len(chan[t]) + 1

(* C24: a slow or never-returning handler cannot stall the reader: while
   handler tasks are still running the reader goes on reading frames and
   delivers replies to pending requests *)
C24_HandlersNeverStallReader ==
    /\ []ReaderNotStalled
    /\ [][SpawnLeavesReaderReading /\ DeliversWhileRunning]_vars

(* a reply was delivered while a handler task was live, and a task is live *)
C24_Witness == hist.overlap /\ tasks # <<>>

(* ---- C25 ---- *)

(* inside the GOODBYE arm the reader's pending send can complete without any
   caller taking a signal first *)
GoodbyeArmCompletes ==
    /\ reader_pc = "goodbye" => ENABLED SignalGoodbye
    /\ reader_pc = "exit" => ENABLED SignalExit

(* C25: the reader suspends only on peer.read: whatever frames arrive
   (several GOODBYE frames included, with nobody in leave or wait_disconnect)
   the dispatch of a frame completes; the reader is never blocked on a signal
   channel *)
C25_ReaderSuspendsOnlyOnRead == GoodbyeArmCompletes

(* ======================================================================== *)
(* The transport peer (src/src/async_/rawsocket.rs, src/src/sync/websocket.rs) *)
(* ======================================================================== *)
Min(a, b) == IF a <= b THEN a ELSE b
Take(s, n) == SubSeq(s, 1, n)
Drop(s, n) == SubSeq(s, n + 1, Len(s))

(* everything that calls peer.write: the callers and the handler tasks *)
Writers == 1..(NumCallers + MaxTasks)
WriterThread == NumCallers + MaxTasks + 1

(* the payload bytes of the frame with tag k and length L; no payload byte is
   zero and no two frames share a byte value *)
PayloadOf(k, L) == [i \in 1..L |-> 10 * k + i]

(* MessageHeader: one type byte (WAMP = 0, PING = 1, PONG = 2) and the length
   in three bytes, big-endian *)
HeaderOf(L) == <<0, L \div 65536, (L \div 256) % 256, L % 256>>
ValidHeader(buf) == buf[1] \in {0, 1, 2}
HeaderLength(buf) == buf[2] * 65536 + buf[3] * 256 + buf[4]

(* a buffer of `size` zero bytes after a socket read stored `got` at its start *)
Filled(got, size) == [i \in 1..size |-> IF i <= Len(got) THEN got[i] ELSE 0]

(* the router sends one frame of L payload bytes: header, then payload *)
RouterSendsFrame(L) ==
    /\ flavour = "async"
    /\ Len(peer.sent) < MaxFrames
    /\ peer' = [peer EXCEPT
                 !.inbound = @ \o HeaderOf(L) \o PayloadOf(Len(peer.sent) + 1, L),
                 !.sent = Append(@, PayloadOf(Len(peer.sent) + 1, L))]
    /\ UNCHANGED <<flavour, idgen, state, pc, op, request_id, chan, ret, wire, tasks,
                   reader_pc, goodbye_chan, exit_chan, answered, hist>>

(* read(), first half: one socket read into a 4-byte buffer, which stores n
   bytes (at least one, at most what has arrived), then the header is parsed
   from the whole buffer *)
ReadHeader(n) ==
    /\ flavour = "async"
    /\ peer.rpc = "header"
    /\ n \in 1..Min(4, Len(peer.inbound))
    /\ LET buf == Filled(Take(peer.inbound, n), 4)
       IN  peer' = [peer EXCEPT
                     !.inbound = Drop(@, n),
                     !.rpc = IF ValidHeader(buf) THEN "payload" ELSE "failed",
                     !.need = IF ValidHeader(buf) THEN HeaderLength(buf) ELSE 0]
    /\ UNCHANGED <<flavour, idgen, state, pc, op, request_id, chan, ret, wire, tasks,
                   reader_pc, goodbye_chan, exit_chan, answered, hist>>

(* read(), second half: one socket read into a buffer of header.length()
   zero bytes, which stores n bytes; the buffer is returned whole.  The value
   returned is recorded as the bytes stored and the buffer's length: the rest
   of the buffer is zeros.  A read into an empty buffer returns at once. *)
ReadPayload(n) ==
    /\ flavour = "async"
    /\ peer.rpc = "payload"
    /\ IF peer.need = 0 THEN n = 0 ELSE n \in 1..Min(peer.need, Len(peer.inbound))
    /\ peer' = [peer EXCEPT
                 !.inbound = Drop(@, n),
                 !.rpc = "header",
                 !.out = Append(@, [data |-> Take(peer.inbound, n), len |-> peer.need])]
    /\ UNCHANGED <<flavour, idgen, state, pc, op, request_id, chan, ret, wire, tasks,
                   reader_pc, goodbye_chan, exit_chan, answered, hist>>

NextRawSocketRead ==
    \/ \E L \in 1..MaxPayload : RouterSendsFrame(L)
    \/ \E n \in 1..4 : ReadHeader(n)
    \/ \E n \in 0..(MaxFrames * (4 + MaxPayload)) : ReadPayload(n)

SpecRawSocketRead == Init /\ [][NextRawSocketRead]_vars

(* -------- C26 -------- *)
(* C26: every value the RawSocket peer's read() returns is exactly the payload
   of one frame the router sent, the i-th value the payload of the i-th frame,
   however the socket splits the bytes across its reads. *)
ReadIsFrame(i) ==
    /\ i <= Len(peer.sent)
    /\ peer.out[i].data = peer.sent[i]
    /\ peer.out[i].len = Len(peer.sent[i])

C26_ReadReturnsWholeFrames ==
    \A i \in 1..Len(peer.out) : ReadIsFrame(i)

(* ---- outbound: RawSocketPeer::write and WebSocketPeer::write ---- *)

(* the bytes of a frame that are still to be written *)
Frame0 == [hdr |-> <<>>, pay |-> <<>>]
FrameOf(payload) == [hdr |-> HeaderOf(Len(payload)), pay |-> payload]
Current(w) == IF peer.left[w].hdr # <<>> THEN peer.left[w].hdr ELSE peer.left[w].pay

(* one socket write inside write_all / send: n bytes of the buffer in hand
   reach the stream *)
AfterWrite(w, n) ==
    [peer EXCEPT
      !.outbound = @ \o Take(Current(w), n),
      !.left[w] = IF peer.left[w].hdr # <<>> THEN [@ EXCEPT !.hdr = Drop(@, n)]
                                             ELSE [@ EXCEPT !.pay = Drop(@, n)]]

(* RawSocketPeer::write is called with L payload bytes: the header is built
   and the caller asks for the writer lock *)
RsWrite(w, L) ==
    /\ flavour = "async"
    /\ peer.wpc[w] = "idle"
    /\ peer' = [peer EXCEPT !.wpc[w] = "locking",
                            !.left[w] = FrameOf(PayloadOf(w, L))]
    /\ UNCHANGED <<flavour, idgen, state, pc, op, request_id, chan, ret, wire, tasks,
                   reader_pc, goodbye_chan, exit_chan, answered, hist>>

(* self.writer.lock().await returns when the lock is free *)
RsWriteLock(w) ==
    /\ flavour = "async"
    /\ peer.wpc[w] = "locking"
    /\ peer.wlock = 0
    /\ peer' = [peer EXCEPT !.wpc[w] = "writing", !.wlock = w]
    /\ UNCHANGED <<flavour, idgen, state, pc, op, request_id, chan, ret, wire, tasks,
                   reader_pc, goodbye_chan, exit_chan, answered, hist>>

(* variant: the guard is dropped when write_all(&header_raw) returns, and the
   payload is written without it *)
RsWriteAllLockPerCall(w, n) ==
    /\ flavour = "async"
    /\ peer.wpc[w] = "writing"
    /\ ~peer.broken
    /\ n \in 1..Len(Current(w))
    /\ peer' = IF AfterWrite(w, n).left[w] = Frame0
               THEN [AfterWrite(w, n) EXCEPT !.wpc[w] = "done"]
               ELSE IF AfterWrite(w, n).left[w].hdr = <<>> /\ peer.wlock = w
                    THEN [AfterWrite(w, n) EXCEPT !.wlock = 0]
                    ELSE AfterWrite(w, n)
    /\ UNCHANGED <<flavour, idgen, state, pc, op, request_id, chan, ret, wire, tasks,
                   reader_pc, goodbye_chan, exit_chan, answered, hist>>

(* one socket write of write_all(&header_raw) or write_all(&data), under the
   writer lock; after the last byte of the payload write returns Ok(()) and
   the guard is dropped *)
RsWriteAll(w, n) ==
    /\ flavour = "async"
    /\ peer.wlock = w
    /\ ~peer.broken
    /\ n \in 1..Len(Current(w))
    /\ peer' = IF AfterWrite(w, n).left[w] = Frame0
               THEN [AfterWrite(w, n) EXCEPT !.wlock = 0, !.wpc[w] = "done"]
               ELSE AfterWrite(w, n)
    /\ UNCHANGED <<flavour, idgen, state, pc, op, request_id, chan, ret, wire, tasks,
                   reader_pc, goodbye_chan, exit_chan, answered, hist>>

(* a socket write fails: write returns Err through `?` and the guard is
   dropped; the stream stays failed *)
RsWriteErr(w) ==
    /\ flavour = "async"
    /\ peer.wlock = w
    /\ peer' = [peer EXCEPT !.wlock = 0, !.wpc[w] = "failed", !.broken = TRUE,
                            !.left[w] = Frame0]
    /\ UNCHANGED <<flavour, idgen, state, pc, op, request_id, chan, ret, wire, tasks,
                   reader_pc, goodbye_chan, exit_chan, answered, hist>>

(* WebSocketPeer::write: the message goes into the channel to the writer
   thread and write returns; the send fails once the writer thread is gone *)
WsWrite(w, L) ==
    /\ flavour = "sync"
    /\ peer.wpc[w] = "idle"
    /\ peer' = IF peer.broken
               THEN [peer EXCEPT !.wpc[w] = "failed"]
               ELSE [peer EXCEPT !.wpc[w] = "done", !.queue = Append(@, PayloadOf(w, L))]
    /\ UNCHANGED <<flavour, idgen, state, pc, op, request_id, chan, ret, wire, tasks,
                   reader_pc, goodbye_chan, exit_chan, answered, hist>>

(* the writer thread takes the next message from the channel and locks the
   socket *)
WriterThreadTake ==
    /\ flavour = "sync"
    /\ ~peer.broken
    /\ peer.wlock = 0
    /\ peer.queue # <<>>
    /\ peer' = [peer EXCEPT !.wlock = WriterThread, !.queue = Tail(@),
                            !.left[WriterThread] = FrameOf(Head(peer.queue))]
    /\ UNCHANGED <<flavour, idgen, state, pc, op, request_id, chan, ret, wire, tasks,
                   reader_pc, goodbye_chan, exit_chan, answered, hist>>

(* sock.send(msg): the bytes of the one message reach the stream under the
   socket lock, in one or more socket writes; the frame header of the
   WebSocket message is written as a length header *)
WriterThreadSend(n) ==
    /\ flavour = "sync"
    /\ peer.wlock = WriterThread
    /\ n \in 1..Len(Current(WriterThread))
    /\ peer' = IF AfterWrite(WriterThread, n).left[WriterThread] = Frame0
               THEN [AfterWrite(WriterThread, n) EXCEPT !.wlock = 0]
               ELSE AfterWrite(WriterThread, n)
    /\ UNCHANGED <<flavour, idgen, state, pc, op, request_id, chan, ret, wire, tasks,
                   reader_pc, goodbye_chan, exit_chan, answered, hist>>

(* sock.send fails: the writer thread prints the error and ends, dropping the
   receiving end of the channel and what is queued in it *)
WriterThreadErr ==
    /\ flavour = "sync"
    /\ peer.wlock = WriterThread
    /\ peer' = [peer EXCEPT !.wlock = 0, !.broken = TRUE,
                            !.left[WriterThread] = Frame0, !.queue = <<>>]
    /\ UNCHANGED <<flavour, idgen, state, pc, op, request_id, chan, ret, wire, tasks,
                   reader_pc, goodbye_chan, exit_chan, answered, hist>>

NextPeerWrite ==
    \/ \E w \in Writers, L \in 1..MaxPayload : RsWrite(w, L)
    \/ \E w \in Writers : RsWriteLock(w)
    \/ \E w \in Writers, n \in 1..(4 + MaxPayload) : RsWriteAll(w, n)
    \/ \E w \in Writers : RsWriteErr(w)
    \/ \E w \in Writers, L \in 1..MaxPayload : WsWrite(w, L)
    \/ WriterThreadTake
    \/ \E n \in 1..(4 + MaxPayload) : WriterThreadSend(n)
    \/ WriterThreadErr

SpecPeerWrite == Init /\ [][NextPeerWrite]_vars

(* -------- C27 -------- *)
(* C27: the bytes written to the socket are, at every moment, a sequence of
   whole frames (a header followed by exactly the payload it announces, all of
   it from one writer) followed at most by the written part of the frame whose
   writer holds the lock; every writer's frame is in the stream at most once,
   and a write that returned Ok from RawSocketPeer::write is in it whole. *)
RECURSIVE FramesIn(_)
FramesIn(s) ==
    IF Len(s) < 4 \/ ~ValidHeader(Take(s, 4)) \/ Len(s) < 4 + HeaderLength(Take(s, 4))
    THEN <<>>
    ELSE <<SubSeq(s, 5, 4 + HeaderLength(Take(s, 4)))>>
         \o FramesIn(Drop(s, 4 + HeaderLength(Take(s, 4))))

RECURSIVE RestAfterFrames(_)
RestAfterFrames(s) ==
    IF Len(s) < 4 \/ ~ValidHeader(Take(s, 4)) \/ Len(s) < 4 + HeaderLength(Take(s, 4))
    THEN s
    ELSE RestAfterFrames(Drop(s, 4 + HeaderLength(Take(s, 4))))

(* a payload is whole when it is the payload some writer passed to write *)
WholePayload(p) ==
    \E w \in Writers : p = PayloadOf(w, Len(p)) /\ Len(p) >= 1

(* what follows the whole frames is the written part of one frame: the one
   whose writer holds the lock, or the one a failed write left behind *)
InHand(s) ==
    \/ s = <<>>
    \/ /\ peer.wlock # 0
       /\ \E w \in Writers, L \in 1..MaxPayload :
              LET bytes == HeaderOf(L) \o PayloadOf(w, L)
              IN  /\ Len(s) < Len(bytes)
                  /\ s = Take(bytes, Len(s))
                  /\ peer.left[peer.wlock].hdr \o peer.left[peer.wlock].pay
                       = Drop(bytes, Len(s))
    \/ /\ peer.broken
       /\ \E w \in Writers, L \in 1..MaxPayload :
              LET bytes == HeaderOf(L) \o PayloadOf(w, L)
              IN  Len(s) < Len(bytes) /\ s = Take(bytes, Len(s))

StreamIsWholeFrames ==
    /\ \A i \in 1..Len(FramesIn(peer.outbound)) : WholePayload(FramesIn(peer.outbound)[i])
    /\ InHand(RestAfterFrames(peer.outbound))

NoFrameTwice ==
    \A i, j \in 1..Len(FramesIn(peer.outbound)) :
        i # j => FramesIn(peer.outbound)[i][1] # FramesIn(peer.outbound)[j][1]

ReturnedWritesAreWhole ==
    \A w \in Writers :
        flavour = "async" /\ peer.wpc[w] = "done"
            => \E i \in 1..Len(FramesIn(peer.outbound)) :
                   FramesIn(peer.outbound)[i][1] = PayloadOf(w, 1)[1]

C27_WritesAreSerialized ==
    StreamIsWholeFrames /\ NoFrameTwice /\ ReturnedWritesAreWhole

(* one writer holds the lock with part of its frame written, a second one is
   inside write waiting for the lock, and a third one's frame is already on the
   stream *)
C27_Witness ==
    /\ peer.wlock \in Writers
    /\ RestAfterFrames(peer.outbound) # <<>>
    /\ \E w \in Writers : w # peer.wlock /\ peer.wpc[w] = "locking"
    /\ Len(FramesIn(peer.outbound)) >= 1

(* ======================================================================== *)
(* connect and the join handshake (client.rs, joiner.rs of both sessions)   *)
(* ======================================================================== *)
Schemes == {"ws", "rs", "other"}
Authenticators == {"anonymous", "ticket", "wampcra", "cryptosign"}
JoinFrames == {"WELCOME", "CHALLENGE", "ABORT", "GOODBYE"}

(* a connect call that has not started: no transport, no session, no reader *)
InitJoin ==
    /\ \E s \in Schemes, a \in Authenticators :
          peer = [Peer0 EXCEPT !.join = "start", !.scheme = s, !.auth = a,
                               !.connect = [status |-> "-"]]
    /\ flavour \in Flavours
    /\ idgen = 0
    /\ state = State0
    /\ pc = [t \in Callers |-> "idle"]
    /\ op = [t \in Callers |-> NoOp]
    /\ request_id = [t \in Callers |-> 0]
    /\ chan = [t \in Callers |-> <<>>]
    /\ ret = [t \in Callers |-> NotReturned]
    /\ wire = <<>>
    /\ tasks = <<>>
    /\ reader_pc = "unstarted"
    /\ goodbye_chan = 0
    /\ exit_chan = 0
    /\ answered = {}
    /\ hist = [emitted |-> <<>>, dropped |-> "none", installed |-> {},
               task_end |-> "none", events |-> 0,
               goodbyes |-> 0, flagged |-> 0, exits |-> 0,
               leaves |-> 0, left |-> 0, waited |-> 0, late |-> {},
               unsubscribed |-> {},
               twin |-> [registrations |-> <<>>, subscriptions |-> <<>>],
               overlap |-> FALSE, unrouted |-> 0,
               abandoned |-> {}, discarded |-> {}]

(* what Client::connect does with Err(e) from joiner.join: the cooperative
   client hands it to the caller (map_err(..)?), the blocking client takes the
   else branch of `if let Ok(..)` and panics *)
ConnectFails(why) ==
    IF flavour = "async"
    THEN [peer EXCEPT !.join = "failed", !.failure = why,
                      !.connect = [status |-> "Err"]]
    ELSE [peer EXCEPT !.join = "failed", !.failure = why,
                      !.connect = [status |-> "panic"]]

(* joiner::Joiner::receive: WELCOME completes the join; CHALLENGE is handed to
   the authenticator once, after HELLO, and answered with AUTHENTICATE unless
   the authenticator rejects it; ABORT and every other frame are errors *)
JoinerReceive(f, answers) ==
    CASE f = "WELCOME" -> "complete"
      [] f = "CHALLENGE" /\ peer.join = "hello" /\ peer.auth # "anonymous" /\ answers -> "send"
      [] f = "CHALLENGE" /\ peer.join = "hello" -> "authenticator"
      [] f = "ABORT" -> "abort"
      [] OTHER -> "protocol"

(* Client::connect up to the first read: the scheme is checked (cooperative
   client only), the transport is connected, HELLO is written *)
ConnectStart(transport, written) ==
    /\ peer.join = "start"
    /\ peer' = IF flavour = "async" /\ peer.scheme = "other"
               THEN ConnectFails("scheme")
               ELSE IF ~transport THEN ConnectFails("transport")
               ELSE IF ~written THEN ConnectFails("write")
               ELSE [peer EXCEPT !.join = "hello", !.log = Append(@, "HELLO")]
    /\ UNCHANGED <<flavour, idgen, state, pc, op, request_id, chan, ret, wire, tasks,
                   reader_pc, goodbye_chan, exit_chan, answered, hist>>

(* variant: the frame the joiner emits for a CHALLENGE is kept back and the
   loop reads again *)
JoinReadKeepsAnswer(f, answers, written) ==
    /\ peer.join \in {"hello", "authenticate"}
    /\ LET r == JoinerReceive(f, answers)
       IN  CASE r = "complete" ->
                  /\ peer' = [peer EXCEPT !.join = "joined", !.log = Append(@, f),
                                          !.connect = [status |-> "Ok"]]
                  /\ reader_pc' = "read"
             [] r = "send" ->
                  /\ peer' = [peer EXCEPT !.join = "authenticate", !.log = Append(@, f)]
                  /\ UNCHANGED reader_pc
             [] OTHER ->
                  /\ peer' = [ConnectFails(r) EXCEPT !.log = Append(@, f)]
                  /\ UNCHANGED reader_pc
    /\ UNCHANGED <<flavour, idgen, state, pc, op, request_id, chan, ret, wire, tasks,
                   goodbye_chan, exit_chan, answered, hist>>

(* one turn of the join loop: a frame is read and offered to the joiner; on
   completion connect builds the Session, which starts the reader *)
JoinRead(f, answers, written) ==
    /\ peer.join \in {"hello", "authenticate"}
    /\ LET r == JoinerReceive(f, answers)
       IN  CASE r = "complete" ->
                  /\ peer' = [peer EXCEPT !.join = "joined", !.log = Append(@, f),
                                          !.connect = [status |-> "Ok"]]
                  /\ reader_pc' = "read"
             [] r = "send" ->
                  /\ peer' = IF written
                             THEN [peer EXCEPT !.join = "authenticate",
                                               !.log = Append(Append(@, f), "AUTHENTICATE")]
                             ELSE [ConnectFails("write") EXCEPT !.log = Append(@, f)]
                  /\ UNCHANGED reader_pc
             [] OTHER ->
                  /\ peer' = [ConnectFails(r) EXCEPT !.log = Append(@, f)]
                  /\ UNCHANGED reader_pc
    /\ UNCHANGED <<flavour, idgen, state, pc, op, request_id, chan, ret, wire, tasks,
                   goodbye_chan, exit_chan, answered, hist>>

(* peer.read fails inside the join loop: the cooperative join returns the
   error; the blocking join skips the turn (`if let Ok(reply)`) and reads
   again *)
JoinReadErr ==
    /\ peer.join \in {"hello", "authenticate"}
    /\ peer' = IF flavour = "async"
               THEN ConnectFails("read")
               ELSE [peer EXCEPT !.failure = "read"]
    /\ UNCHANGED <<flavour, idgen, state, pc, op, request_id, chan, ret, wire, tasks,
                   reader_pc, goodbye_chan, exit_chan, answered, hist>>

NextJoin ==
    \/ \E transport \in BOOLEAN, written \in BOOLEAN : ConnectStart(transport, written)
    \/ \E f \in JoinFrames, answers \in BOOLEAN, written \in BOOLEAN :
          JoinRead(f, answers, written)
    \/ JoinReadErr

SpecJoin == InitJoin /\ [][NextJoin]_vars

(* -------- C28 -------- *)
(* C28: when the join handshake fails on a router ABORT, on the
   authenticator's rejection of a CHALLENGE, or on a frame the joiner does not
   accept, connect has returned an error value to its caller, no session
   exists, the reader was never started and the join stays failed. *)
HandshakeFailed == peer.failure \in {"abort", "authenticator", "protocol"}

C28_JoinFailureReturnsError ==
    HandshakeFailed =>
        /\ peer.connect = [status |-> "Err"]
        /\ peer.join = "failed"
        /\ reader_pc = "unstarted"

(* -------- C29 -------- *)
(* C29: the request frames on the transport are in strictly increasing
   request-id order: of two frames, the one written first carries the smaller
   id, also when the two operations were invoked by different callers. *)
C29_WireOrderFollowsIds ==
    \A i, j \in 1..Len(wire) :
        i < j => wire[i].request_id < wire[j].request_id

(* -------- C30 -------- *)
(* C30: for call, register, subscribe and acknowledged publish the reply
   channel is in the pending map when the frame is written: a caller whose
   frame is on the transport and who has received nothing yet has its entry in
   the map of its operation, under its request id; and an entry leaves the map
   of a waiting caller only by a reply being delivered to that caller.  So the
   first matching reply dispatched after the write is delivered, however
   early it comes. *)
Awaiting(t) ==
    pc[t] = "recv" /\ MapOfOp(op[t]) # "none" /\ chan[t] = <<>>

HasEntry(t) ==
    /\ request_id[t] \in DOMAIN state[MapOfOp(op[t])]
    /\ state[MapOfOp(op[t])][request_id[t]] = t

EntryPresentOnceWritten == \A t \in Callers : Awaiting(t) => HasEntry(t)

WriteFindsEntry ==
    [][\A t \in Callers :
          (pc[t] = "write" /\ pc'[t] = "recv" /\ MapOfOp(op[t]) # "none")
              => (Len(wire') = Len(wire) + 1
                  /\ wire'[Len(wire')].request_id = request_id[t]
                  /\ (HasEntry(t) \/ chan[t] # <<>>))]_vars

EntryLeavesByDelivery ==
    [][\A t \in Callers :
          (Awaiting(t) /\ pc'[t] = "recv"
             /\ request_id[t] \notin DOMAIN state'[MapOfOp(op[t])])
              => (Len(chan'[t]) = 1 /\ chan'[t][1].from.request_id = request_id[t])]_vars

C30_InsertBeforeWrite ==
    []EntryPresentOnceWritten /\ WriteFindsEntry /\ EntryLeavesByDelivery

(* a caller whose frame was written has been handed the reply for its id while
   the other caller's frame, written earlier, is still unanswered *)
C30_Witness ==
    \E t, u \in Callers :
        /\ t # u
        /\ pc[t] = "recv" /\ chan[t] # <<>>
        /\ chan[t][1].from.request_id = request_id[t]
        /\ Awaiting(u) /\ HasEntry(u)
        /\ Len(wire) = 2 /\ wire[1].request_id = request_id[u]

(* -------- C31 -------- *)
(* C31: dispatching ERROR(type = T, request_id = k) removes k from the pending
   map of T when it is there, delivering a response with the error set to the
   caller that owned the entry, and changes no other pending map, no registry
   and no other caller's channel, also when k is pending in another map; an
   ERROR whose originating type has no pending map changes nothing at all. *)
ErrorFrames == {f \in ReplyFrames : f.type = "ERROR"}
Registries == {"registrations", "subscriptions"}

ErrorTouchesOnlyItsMap(f) ==
    LET m == MapOfType(f.etype) IN
    IF m = "none"
    THEN state' = state /\ chan' = chan
    ELSE /\ state'[m] = Remove(state[m], f.request_id)
         /\ \A o \in (PendingMaps \cup Registries) \ {m} : state'[o] = state[o]
         /\ state'.goodbye_sent = state.goodbye_sent
         /\ IF f.request_id \in DOMAIN state[m]
            THEN LET t == state[m][f.request_id] IN
                 /\ chan'[t] = Append(chan[t], chan'[t][Len(chan'[t])])
                 /\ chan'[t][Len(chan'[t])].from = f
                 /\ chan'[t][Len(chan'[t])].resp.error = Some(WampError(f))
                 /\ \A u \in Callers \ {t} : chan'[u] = chan[u]
            ELSE chan' = chan

(* an ERROR names another map than the one its request id is pending in *)
Misaddressed(f) ==
    /\ f.request_id \in PendingKeys
    /\ \/ MapOfType(f.etype) = "none"
       \/ f.request_id \notin DOMAIN state[MapOfType(f.etype)]

(* the router sends an ERROR frame and the reader dispatches it; the router
   keeps the request ids it has answered with a misaddressed ERROR *)
ErrorReply(f) ==
    /\ reader_pc = "read"
    /\ answered' = IF Misaddressed(f) THEN answered \cup {f.request_id} ELSE answered
    /\ process_reply(f)
    /\ UNCHANGED <<peer, flavour, idgen, pc, op, request_id, ret, wire, tasks, reader_pc,
                   goodbye_chan, exit_chan>>

(* the four operations against a router that answers with ERROR frames only *)
NextErrors ==
    \/ \E t \in Callers : \E o \in Requests(t) : Invoke(t, o)
    \/ \E t \in Callers : WriteOk(t)
    \/ \E t \in Callers : WriteErr(t)
    \/ \E t \in Callers : Recv(t)
    \/ \E f \in ErrorFrames : ErrorReply(f)

SpecErrors == Init /\ [][NextErrors]_vars

C31_ErrorTouchesOnlyItsMap ==
    [][\A f \in ErrorFrames : ErrorReply(f) => ErrorTouchesOnlyItsMap(f)]_vars

(* an ERROR naming another originating type was dispatched while its request
   id was pending, and the caller owning that id is still waiting with its
   entry in place *)
C31_Witness ==
    \E t \in Callers :
        /\ request_id[t] \in answered
        /\ pc[t] = "recv" /\ chan[t] = <<>>
        /\ MapOfOp(op[t]) # "none"
        /\ request_id[t] \in DOMAIN state[MapOfOp(op[t])]
        /\ state[MapOfOp(op[t])][request_id[t]] = t

(* -------- C32 -------- *)
(* the router sends an INVOCATION and the reader dispatches it; `unrouted`
   flips each time an invocation finds no registration *)
InvocationRouted(f) ==
    /\ InvocationArm(f)
    /\ hist' = [hist EXCEPT !.unrouted =
                   IF f.id \in DOMAIN state.registrations THEN @ ELSE 1 - @]

NextUnknownInvocations ==
    \/ \E t \in Callers : \E o \in RegisterRequests(t) : Invoke(t, o)
    \/ \E t \in Callers : WriteOk(t)
    \/ \E t \in Callers : Recv(t)
    \/ \E f \in RegisterReplies : DispatchReply(f)
    \/ \E f \in InvocationFrames : InvocationRouted(f)
    \/ \E i \in 1..MaxTasks : RunInvocation(i)
    \/ \E i \in 1..MaxTasks : RunInvocationErr(i)
    \/ \E i \in 1..MaxTasks : RunInvocationPanic(i)

SpecUnknownInvocations == Init /\ [][NextUnknownInvocations]_vars

(* C32: dispatching an INVOCATION whose registration id is not a key of
   registrations spawns no handler task, writes no frame, changes no map, no
   channel and no caller, and leaves the reader ready for the next frame; and
   a handler task only ever exists for a registration id that is a key. *)
UnknownRegistration(f) == f.id \notin DOMAIN state.registrations

DroppedSilently ==
    /\ UNCHANGED <<state, tasks, wire, chan, pc, op, ret, request_id, idgen,
                   goodbye_chan, exit_chan>>
    /\ reader_pc' = "read"

UnknownInvocationDropped ==
    [][\A f \in InvocationFrames :
          (UnknownRegistration(f) /\ InvocationRouted(f)) => DroppedSilently]_vars

TasksHaveRegistrations ==
    \A i \in 1..Len(tasks) :
        tasks[i].kind = "invocation" => tasks[i].id \in DOMAIN state.registrations

C32_UnknownInvocationDropped ==
    UnknownInvocationDropped /\ []TasksHaveRegistrations

(* an INVOCATION for an id other than the one registered was dispatched: no
   task exists and nothing but the REGISTER frame was written *)
C32_Witness ==
    /\ hist.unrouted = 1
    /\ DOMAIN state.registrations # {}
    /\ tasks = <<>>
    /\ \A i \in 1..Len(wire) : wire[i].type = "REGISTER"

(* -------- C33 -------- *)
(* register and subscribe against a router that acknowledges them, then sends
   INVOCATIONs and EVENTs *)
AckFrames == {f \in ReplyFrames : f.type \in {"REGISTERED", "SUBSCRIBED"}}

NextAcknowledged ==
    \/ \E t \in Callers : \E o \in HandlerRequests(t) : Invoke(t, o)
    \/ \E t \in Callers : WriteOk(t)
    \/ \E t \in Callers : Recv(t)
    \/ \E f \in AckFrames : DispatchReply(f)
    \/ \E f \in InvocationFrames : InvocationRouted(f)
    \/ \E f \in EventFrames : DispatchEvent(f)
    \/ \E i \in 1..MaxTasks : RunInvocation(i)
    \/ \E i \in 1..MaxTasks : RunEvent(i)

SpecAcknowledged == Init /\ [][NextAcknowledged]_vars

(* C33: once the reader has dispatched REGISTERED(req, r) (SUBSCRIBED(req, s))
   for a pending register (subscribe), every INVOCATION for r (EVENT for s)
   the reader dispatches afterwards spawns a handler task: it finds r (s) in
   the registry, wherever the caller is at that moment. *)
Acknowledged(reg, x) ==
    \E t \in Callers :
        /\ RegistryOfOp(op[t]) = reg
        /\ \/ /\ pc[t] = "recv" /\ chan[t] # <<>>
              /\ chan[t][1].resp.error = None
              /\ InstalledId(op[t], chan[t][1].resp) = x
           \/ /\ pc[t] = "done" /\ ret[t].status = "Ok"
              /\ ret[t].value.error = None
              /\ InstalledId(op[t], ret[t].value) = x

InvocationFindsHandler ==
    \A f \in InvocationFrames :
        (Acknowledged("registrations", f.id) /\ InvocationRouted(f))
            => Len(tasks') = Len(tasks) + 1

EventFindsHandler ==
    \A f \in EventFrames :
        (Acknowledged("subscriptions", f.id) /\ DispatchEvent(f))
            => Len(tasks') = Len(tasks) + 1

C33_InstalledOnAcknowledgement ==
    [][InvocationFindsHandler /\ EventFindsHandler]_vars

(* -------- C34 -------- *)
(* C34: when register (subscribe) returns a response whose error is set, the
   returning step leaves registrations and subscriptions as they were, and no
   registry ever holds an entry under id 0. *)
ReturnsError(t) ==
    /\ pc[t] = "recv" /\ pc'[t] = "done"
    /\ RegistryOfOp(op[t]) # "none"
    /\ ret'[t].status = "Ok"
    /\ ret'[t].value.error # None

ErrorInstallsNothing ==
    \A t \in Callers :
        ReturnsError(t) =>
            /\ state'.registrations = state.registrations
            /\ state'.subscriptions = state.subscriptions

NoEntryUnderZero ==
    0 \notin DOMAIN state.registrations /\ 0 \notin DOMAIN state.subscriptions

C34_ErrorInstallsNothing == [][ErrorInstallsNothing]_vars /\ []NoEntryUnderZero

(* -------- C35 -------- *)
(* C35: a publish owns an entry of publish_requests and waits for a reply if
   and only if its acknowledge option is the boolean true; with the key
   missing, false or not a boolean it holds no entry, never waits, returns
   "no reply" after a successful write, and a PUBLISHED dispatched for its
   request id changes no pending map and no reply channel. *)
IsPublish(t) == op[t].name = "publish" /\ pc[t] # "idle"
BooleanTrue(t) == op[t].ack = "true"

AcknowledgedPathIffTrue ==
    \A t \in Callers : IsPublish(t) =>
        /\ pc[t] = "write" =>
              ((request_id[t] \in DOMAIN state.publish_requests \/ chan[t] # <<>>)
                  <=> BooleanTrue(t))
        /\ pc[t] = "recv" => BooleanTrue(t)
        /\ pc[t] = "done" /\ ret[t].status = "Ok" =>
              (ret[t].value = None <=> ~BooleanTrue(t))
        /\ ~BooleanTrue(t) => MapsHolding(request_id[t]) = {} /\ chan[t] = <<>>

AcknowledgedPublishWaits ==
    \A t \in Callers :
        (pc[t] = "write" /\ op[t].name = "publish" /\ WriteOk(t)) =>
            IF BooleanTrue(t) THEN pc'[t] = "recv" /\ ret'[t] = NotReturned
            ELSE pc'[t] = "done" /\ ret'[t] = Ok(None, None)

FireAndForget(k) ==
    \E t \in Callers : IsPublish(t) /\ ~BooleanTrue(t) /\ request_id[t] = k

LatePublishedDropped ==
    \A f \in ReplyFrames :
        (f.type = "PUBLISHED" /\ FireAndForget(f.request_id) /\ DispatchReply(f))
            => state' = state /\ chan' = chan /\ hist'.dropped = "unknown"

C35_AcknowledgeIffBooleanTrue ==
    /\ []AcknowledgedPathIffTrue
    /\ [][AcknowledgedPublishWaits /\ LatePublishedDropped]_vars

(* a publish whose acknowledge option is not a boolean has returned "no
   reply", the PUBLISHED sent for it afterwards was dropped, and a publish
   with acknowledge = true is waiting with its entry in publish_requests *)
C35_Witness ==
    \E t, u \in Callers :
        /\ op[t].name = "publish" /\ op[t].ack = "nonbool"
        /\ pc[t] = "done" /\ ret[t] = Ok(None, None)
        /\ hist.dropped = "unknown"
        /\ op[u].name = "publish" /\ op[u].ack = "true" /\ pc[u] = "recv"
        /\ request_id[u] \in DOMAIN state.publish_requests

(* -------- C36 -------- *)
(* C36: the join handshake is in order: nothing is read before HELLO is
   written and HELLO is the first and only HELLO on the transport; the
   AUTHENTICATE the joiner emits for a CHALLENGE is written right after that
   CHALLENGE, before the next read; and connect has a session only after the
   joiner accepted WELCOME, which is then the last frame of the handshake. *)
Written == {"HELLO", "AUTHENTICATE"}
LastOf(s) == s[Len(s)]

HelloFirst ==
    /\ peer.join = "start" => peer.log = <<>>
    /\ peer.log # <<>> => peer.log[1] = "HELLO"
    /\ \A i \in 2..Len(peer.log) : peer.log[i] # "HELLO"

AnswerBeforeNextRead ==
    /\ \A i \in 1..Len(peer.log) :
          /\ (peer.log[i] = "CHALLENGE" /\ i < Len(peer.log))
                => peer.log[i + 1] = "AUTHENTICATE"
          /\ peer.log[i] = "AUTHENTICATE" => (i > 1 /\ peer.log[i - 1] = "CHALLENGE")
    /\ peer.join \in {"hello", "authenticate"} => LastOf(peer.log) \in Written
    /\ peer.join = "authenticate" => LastOf(peer.log) = "AUTHENTICATE"

ReturnsAfterWelcome ==
    /\ peer.connect.status = "Ok" <=> peer.join = "joined"
    /\ reader_pc # "unstarted" => peer.join = "joined"
    /\ peer.join = "joined" =>
          /\ LastOf(peer.log) = "WELCOME"
          /\ \A i \in 1..(Len(peer.log) - 1) : peer.log[i] # "WELCOME"

C36_HandshakeInOrder == HelloFirst /\ AnswerBeforeNextRead /\ ReturnsAfterWelcome

(* a join that answered a CHALLENGE and was then welcomed *)
C36_Witness ==
    /\ peer.join = "joined"
    /\ peer.log = <<"HELLO", "CHALLENGE", "AUTHENTICATE", "WELCOME">>
    /\ reader_pc = "read"

(* -------- C37 -------- *)
(* the future of a cooperative call / publish / register / subscribe is
   dropped while it awaits its reply: the receiver is dropped with it, the
   sender stays in the pending map *)
Abandon(t) ==
    /\ flavour = "async"
    /\ pc[t] = "recv"
    /\ pc' = [pc EXCEPT ![t] = "done"]
    /\ ret' = [ret EXCEPT ![t] = [status |-> "abandoned"]]
    /\ chan' = [chan EXCEPT ![t] = <<>>]
    /\ hist' = [hist EXCEPT !.abandoned = @ \cup {request_id[t]}]
    /\ UNCHANGED <<peer, flavour, idgen, state, op, request_id, wire, tasks, reader_pc,
                   goodbye_chan, exit_chan, answered>>

(* the sender a reply frame finds in its map belongs to a dropped receiver *)
ReceiverDropped(f) ==
    /\ SelectedMap(f) # "none"
    /\ f.request_id \in DOMAIN state[SelectedMap(f)]
    /\ f.request_id \in hist.abandoned

(* variant: the result of send is unwrapped, so a dropped receiver ends the
   reader *)
SendToDroppedUnwrap(f) ==
    /\ state' = [state EXCEPT ![SelectedMap(f)] = Remove(@, f.request_id)]
    /\ chan' = chan
    /\ hist' = [hist EXCEPT !.discarded = @ \cup {f.request_id}]
    /\ reader_pc' = "ended"

(* `if let Some(callback) = map.remove(&id) { _ = callback.send(..) }` when the
   receiver is gone: send returns Err, which is thrown away *)
SendToDropped(f) ==
    /\ state' = [state EXCEPT ![SelectedMap(f)] = Remove(@, f.request_id)]
    /\ chan' = chan
    /\ hist' = [hist EXCEPT !.discarded = @ \cup {f.request_id}]
    /\ reader_pc' = reader_pc

(* the reader dispatches a reply frame; the reply channel may have been
   abandoned *)
ReplyDispatched(f) ==
    /\ reader_pc = "read"
    /\ IF ReceiverDropped(f)
       THEN SendToDropped(f)
       ELSE process_reply(f) /\ reader_pc' = reader_pc
    /\ UNCHANGED <<peer, flavour, idgen, pc, op, request_id, ret, wire, tasks,
                   goodbye_chan, exit_chan, answered>>

NextAbandon ==
    \/ \E t \in Callers : \E o \in EchoRequests(t) : Invoke(t, o)
    \/ \E t \in Callers : WriteOk(t)
    \/ \E t \in Callers : Recv(t)
    \/ \E t \in Callers : Abandon(t)
    \/ \E f \in ReplyFrames : ReplyDispatched(f)

SpecAbandon == Init /\ [][NextAbandon]_vars

(* C37: when the reply for a request whose reply channel was abandoned while
   pending is dispatched, that step removes exactly the request's pending
   entry, delivers nothing to any caller, and leaves the reader reading;
   afterwards no pending map holds the id, and the reader is not ended. *)
DiscardRemovesEntry ==
    \A k \in hist'.discarded \ hist.discarded :
        /\ k \in hist.abandoned
        /\ \E m \in PendingMaps :
              /\ k \in DOMAIN state[m]
              /\ state' = [state EXCEPT ![m] = Remove(@, k)]
        /\ chan' = chan
        /\ reader_pc' = "read"

NoStaleEntry ==
    /\ hist.discarded \cap PendingKeys = {}
    /\ reader_pc = "read"
    /\ \A k \in hist.abandoned \cap PendingKeys :
          \E f \in ReplyFrames : ReceiverDropped(f) /\ f.request_id = k

C37_AbandonedReplyDiscarded == [][DiscardRemovesEntry]_vars /\ []NoStaleEntry

(* the reply of an abandoned call was discarded and the reply of the request
   made after it was then delivered and received *)
C37_Witness ==
    \E t, u \in Callers :
        /\ request_id[t] \in hist.discarded
        /\ ret[t].status = "abandoned"
        /\ request_id[u] \notin hist.abandoned
        /\ request_id[u] > request_id[t]
        /\ pc[u] = "done" /\ ret[u].status = "Ok"
        /\ PendingKeys = {}

(* -------- C38 -------- *)
(* C38: when peer.read has returned an error during the handshake, join has
   returned: the join is failed, connect has an outcome for its caller, and
   the join loop is not about to read again. *)
ReadFailed == peer.failure = "read"
JoinLoopReading == peer.join \in {"hello", "authenticate"}

C38_ReadErrorEndsJoin ==
    ReadFailed =>
        /\ peer.join = "failed"
        /\ peer.connect.status # "-"
        /\ ~JoinLoopReading

(* -------- C39 -------- *)
(* C39: the exit condition is sticky: once the exit signal has been raised (a
   GOODBYE arm has sent it, or the reader has ended), every wait_disconnect
   that is waiting, a second or later one included, can return at once,
   without any further step of the reader. *)
ExitRaised == hist.exits > 0 \/ reader_pc = "ended"
InWaitDisconnect(t) == op[t].name = "wait_disconnect" /\ pc[t] = "recv"

C39_ExitIsSticky ==
    \A t \in Callers : (ExitRaised /\ InWaitDisconnect(t)) => ENABLED WaitRecv(t)

(* -------- C40 -------- *)
(* a leave that is past its own use of the goodbye_sent lock and can still
   take a goodbye_acked signal from the channel *)
LeavePastLock(t) == op[t].name = "leave" /\ pc[t] \in {"write", "recv"}

(* the reader, holding the lock of goodbye_sent, can finish its goodbye_acked
   send: the channel has room, or a leave that no longer needs the lock can
   make room *)
HolderCanRelease ==
    reader_pc = "goodbye" =>
        (HasRoom(goodbye_chan) \/ \E t \in Callers : LeavePastLock(t))

(* C40: a task that requests the lock of goodbye_sent eventually obtains it:
   whenever the reader holds that lock inside the GOODBYE arm, the arm can
   come to its end without the help of a task that is itself waiting for the
   lock, so no leave waits for the lock forever. *)
C40_LockEventuallyGranted == HolderCanRelease

====
